---- MODULE Spec2Model ----
(***************************************************************************)
(* metarclone: the upload planner (upload.py), the checksum engine         *)
(* (checksum.py), the name codec (utils.py), the download planner          *)
(* (download.py) and the exit-status logic of the command line (cli.py),   *)
(* over a small local file tree and a remote object store.                 *)
(*                                                                         *)
(* A hash H is modelled symbolically: a digest is the tagged sequence of   *)
(* the fields that were fed to the hash state, so two digests are equal    *)
(* exactly when the hashed inputs are equal.                               *)
(***************************************************************************)
EXTENDS Integers, Sequences, FiniteSets, TLC

VARIABLES tree, inodes, unlistable, conf, meta, remote, run, prev, nruns, nchanges, dl, ld,
          xfer

vars == <<tree, inodes, unlistable, conf, meta, remote, run, prev, nruns, nchanges, dl, ld,
          xfer>>

\* all but the results of download and load_metadata
uvars == <<tree, inodes, unlistable, conf, meta, remote, run, prev, nruns, nchanges>>

fsvars == <<tree, inodes, unlistable>>

\* ------------------------------------------------------------------ bounds
MaxDepth == 2
MaxNodes == 3
MaxRuns == 2
MaxChanges == 1
MaxTime == 1

\* Raw byte names of directory entries: "a", "ab", "g".
Names == {<<97>>, <<97, 98>>, <<103>>}
\* st_size of regular files: one byte, and one byte more than 6000 KiB, the
\* least size of a pack that passes 6000 chunks of s3_min_chunk_size_kib 1.
Sizes == {1, 6000 * 1024 + 1}

None == [none |-> TRUE]

IsNone(x) == DOMAIN x = {"none"}

\* ------------------------------------------------------------ name codec
Pow2(k) == 2 ^ k

\* bit k (0-based, most significant first) of a byte string; 0 past the end
BitAt(bytes, k) ==
  IF k >= 8 * Len(bytes) THEN 0
  ELSE (bytes[(k \div 8) + 1] \div Pow2(7 - (k % 8))) % 2

\* the base32 alphabet A-Z2-7, as code points
B32Char(v) == IF v < 26 THEN 65 + v ELSE 50 + (v - 26)

B32Value(c) == IF c >= 65 THEN c - 65 ELSE 26 + (c - 50)

\* utils.encode_child: b32encode(name) with the '=' padding stripped
encode_child(name) ==
  LET nchars == (8 * Len(name) + 4) \div 5
  IN [i \in 1..nchars |->
        B32Char(BitAt(name, 5 * (i - 1)) * 16 + BitAt(name, 5 * (i - 1) + 1) * 8
                + BitAt(name, 5 * (i - 1) + 2) * 4 + BitAt(name, 5 * (i - 1) + 3) * 2
                + BitAt(name, 5 * (i - 1) + 4))]

\* bit k of a base32 string: 5 bits per character
B32BitAt(str, k) == (B32Value(str[(k \div 5) + 1]) \div Pow2(4 - (k % 5))) % 2

\* utils.decode_child: the padding restored, then b32decode
decode_child(str) ==
  LET nbytes == (5 * Len(str)) \div 8
  IN [j \in 1..nbytes |->
        B32BitAt(str, 8 * (j - 1)) * 128 + B32BitAt(str, 8 * (j - 1) + 1) * 64
        + B32BitAt(str, 8 * (j - 1) + 2) * 32 + B32BitAt(str, 8 * (j - 1) + 3) * 16
        + B32BitAt(str, 8 * (j - 1) + 4) * 8 + B32BitAt(str, 8 * (j - 1) + 5) * 4
        + B32BitAt(str, 8 * (j - 1) + 6) * 2 + B32BitAt(str, 8 * (j - 1) + 7)]

\* Python's order of bytes objects and of str objects: lexicographic on the
\* code units, a proper prefix first
RECURSIVE BytesLess(_, _)
BytesLess(a, b) ==
  IF Len(a) = 0 THEN Len(b) > 0
  ELSE IF Len(b) = 0 THEN FALSE
  ELSE IF a[1] /= b[1] THEN a[1] < b[1]
  ELSE BytesLess(Tail(a), Tail(b))

\* sorted(S) for a finite set of byte strings
RECURSIVE SortedBytes(_)
SortedBytes(S) ==
  IF S = {} THEN <<>>
  ELSE LET m == CHOOSE x \in S : \A y \in S \ {x} : BytesLess(x, y)
       IN <<m>> \o SortedBytes(S \ {m})

\* ------------------------------------------------------------ file system
\* the local base path handed to upload and download: the directory "r"
Root == <<<<114>>>>

RECURSIVE PathsUpTo(_)
PathsUpTo(d) ==
  IF d = 0 THEN {Root}
  ELSE LET P == PathsUpTo(d - 1)
       IN P \cup {Append(p, n) : p \in {q \in P : Len(q) = d}, n \in Names}

PathUniverse == PathsUpTo(MaxDepth) \ {Root}

Parent(p) == SubSeq(p, 1, Len(p) - 1)

Basename(p) == p[Len(p)]

\* os.path.join(path, child)
Join(p, n) == Append(p, n)

\* a path as the byte string the program sorts and compares: its names
\* joined by '/'; the empty relative path is '.'
RECURSIVE PathBytes(_)
PathBytes(p) ==
  IF Len(p) = 0 THEN <<46>>
  ELSE IF Len(p) = 1 THEN p[1]
  ELSE p[1] \o <<47>> \o PathBytes(Tail(p))

PathLess(p, q) == BytesLess(PathBytes(p), PathBytes(q))

RECURSIVE SortedPaths(_)
SortedPaths(S) ==
  IF S = {} THEN <<>>
  ELSE LET m == CHOOSE x \in S : \A y \in S \ {x} : PathLess(x, y)
       IN <<m>> \o SortedPaths(S \ {m})

Exists(p) == p = Root \/ p \in DOMAIN tree

IsDir(p) == p = Root \/ (p \in DOMAIN tree /\ tree[p].kind = "dir")

IsFile(p) == p \in DOMAIN tree /\ tree[p].kind = "file"

\* st_nlink of an inode: the number of names it has
NLink(i) == Cardinality({p \in DOMAIN tree : tree[p].kind = "file" /\ tree[p].ino = i})

\* os.stat(path, follow_symlinks=False): the fields the planner reads
Stat(p) ==
  IF IsDir(p)
  THEN [isdir |-> TRUE, size |-> 0, mtime |-> 0, ctime |-> 0, ino |-> 0, nlink |-> 1,
        content |-> 0]
  ELSE [isdir |-> FALSE, size |-> inodes[tree[p].ino].size,
        mtime |-> inodes[tree[p].ino].mtime, ctime |-> inodes[tree[p].ino].ctime,
        ino |-> tree[p].ino, nlink |-> NLink(tree[p].ino),
        content |-> inodes[tree[p].ino].content]

\* os.listdir(path): the names directly under path
ListDir(p) == {n \in Names : Join(p, n) \in DOMAIN tree}

Min(a, b) == IF a < b THEN a ELSE b
Max(a, b) == IF a > b THEN a ELSE b

FreeIno == CHOOSE i \in 1..(MaxNodes + MaxChanges + 1) :
             /\ i \notin DOMAIN inodes
             /\ \A j \in 1..(i - 1) : j \in DOMAIN inodes

Extend(f, k, v) == [x \in DOMAIN f \cup {k} |-> IF x = k THEN v ELSE f[x]]

Restrict(f, S) == [x \in S |-> f[x]]

\* while the tree is first built, entries are created in path order, so that
\* one tree is built in one way
CanCreate(p) ==
  /\ p \in PathUniverse
  /\ p \notin DOMAIN tree
  /\ IsDir(Parent(p))
  /\ Cardinality(DOMAIN tree) < MaxNodes
  /\ nruns = 0
  /\ IsNone(dl) /\ IsNone(ld)
  /\ \A q \in DOMAIN tree : PathLess(q, p)

\* after the first run the tree is disturbed at most MaxChanges times, and
\* not after the download
CanChange == IsNone(dl) /\ IsNone(ld) /\ nruns > 0 /\ nchanges < MaxChanges

Changed == nchanges' = IF nruns = 0 THEN nchanges ELSE nchanges + 1

Mkdir(p) ==
  /\ CanCreate(p)
  /\ tree' = Extend(tree, p, [kind |-> "dir", ino |-> 0])
  /\ Changed
  /\ UNCHANGED <<dl, ld, xfer, inodes, unlistable, conf, meta, remote, run, prev, nruns>>

CreateFile(p, size) ==
  /\ CanCreate(p)
  /\ tree' = Extend(tree, p, [kind |-> "file", ino |-> FreeIno])
  /\ inodes' = Extend(inodes, FreeIno,
                      [size |-> size, mtime |-> 0, ctime |-> 0, content |-> 0])
  /\ Changed
  /\ UNCHANGED <<dl, ld, xfer, unlistable, conf, meta, remote, run, prev, nruns>>

\* os.link(src, p): a second name for the inode of src
Link(src, p) ==
  /\ CanCreate(p)
  /\ IsFile(src)
  /\ tree' = Extend(tree, p, [kind |-> "file", ino |-> tree[src].ino])
  /\ Changed
  /\ UNCHANGED <<dl, ld, xfer, inodes, unlistable, conf, meta, remote, run, prev, nruns>>

\* os.utime(p): the mtime of the inode is set, its ctime moves on
Touch(p, t) ==
  /\ CanChange
  /\ IsFile(p)
  /\ t \in 0..MaxTime /\ t /= inodes[tree[p].ino].mtime
  /\ inodes' = [inodes EXCEPT ![tree[p].ino].mtime = t,
                              ![tree[p].ino].ctime = Min(@ + 1, MaxTime)]
  /\ Changed
  /\ UNCHANGED <<dl, ld, xfer, tree, unlistable, conf, meta, remote, run, prev, nruns>>

\* os.remove / os.rmdir of a file or an empty directory
Remove(p) ==
  /\ CanChange
  /\ p \in DOMAIN tree
  /\ ListDir(p) = {}
  /\ tree' = Restrict(tree, DOMAIN tree \ {p})
  /\ inodes' = IF tree[p].kind = "file" /\ NLink(tree[p].ino) = 1
               THEN Restrict(inodes, DOMAIN inodes \ {tree[p].ino})
               ELSE inodes
  /\ unlistable' = unlistable \ {p}
  /\ Changed
  /\ UNCHANGED <<dl, ld, xfer, conf, meta, remote, run, prev, nruns>>

\* chmod a-r on a directory: os.listdir and os.scandir raise OSError
Chmod(p) ==
  /\ CanChange
  /\ IsDir(p) /\ p \notin unlistable
  /\ unlistable' = unlistable \cup {p}
  /\ Changed
  /\ UNCHANGED <<dl, ld, xfer, tree, inodes, conf, meta, remote, run, prev, nruns>>

Env ==
  \/ \E p \in PathUniverse : Mkdir(p)
  \/ \E p \in PathUniverse, s \in Sizes : CreateFile(p, s)
  \/ \E p \in PathUniverse, q \in PathUniverse : Link(q, p)
  \/ \E p \in PathUniverse, t \in 0..MaxTime : Touch(p, t)
  \/ \E p \in PathUniverse : Remove(p)
  \/ \E p \in PathUniverse \cup {Root} : Chmod(p)

\* --------------------------------------------------------- configuration
\* config.SyncConfig / UploadConfig: the options the planner reads.  The
\* model's runs use merge_threshold 2 (bytes) with file_base_bytes 0 or 1,
\* and --s3-min-chunk-size 1K.
DefaultConf ==
  [use_file_checksum |-> FALSE, use_owner |-> FALSE, use_directory_mtime |-> FALSE,
   hash_function |-> "sha1", ignore_errors |-> FALSE, metadata_version |-> 1,
   file_base_bytes |-> 1, merge_threshold |-> 2, delete_after_upload |-> TRUE,
   grouping_order |-> "size", s3_min_chunk_size_kib |-> 1]

\* cli.upload_func accepts exactly these values of --grouping-order
GroupingOrders == {"size", "mtime", "ctime", "name"}

\* the configurations of the model: the defaults with each option varied
ConfSet ==
  {DefaultConf,
   [DefaultConf EXCEPT !.grouping_order = "mtime", !.ignore_errors = TRUE],
   [DefaultConf EXCEPT !.grouping_order = "name"]}

\* -------------------------------------------------------- checksum engine
\* b'': the sentinel empty digest
EmptyBytes == [empty |-> TRUE]

\* SyncConfig.head_bytes
head_bytes == <<conf.use_file_checksum, conf.use_owner, conf.use_directory_mtime>>

\* hash_obj.update(data): feeding b'' changes nothing
Update(hash_obj, data) == IF data = EmptyBytes THEN hash_obj ELSE Append(hash_obj, data)

\* hash_obj.digest() / hexdigest()
Digest(hash_obj) == [H |-> hash_obj]

Mode(st) == IF st.isdir THEN "S_IFDIR" ELSE "S_IFREG"

init_file_checksum(name, st) ==
  LET hash_obj == <<[head |-> head_bytes, name |-> name, mode |-> Mode(st)]>>
  IN IF st.isdir
     THEN LET h1 == IF conf.use_directory_mtime THEN Append(hash_obj, [mtime |-> st.mtime])
                    ELSE hash_obj
              h2 == IF conf.use_owner THEN Append(h1, [uid |-> 0, gid |-> 0]) ELSE h1
          IN <<Digest(h2)>>
     ELSE hash_obj

\* the content of a regular file is always readable in the model
get_file_content_checksum(st) == Digest(<<[content |-> st.content]>>)

one_file_checksum(name, st, second_pass) ==
  LET hash_obj == init_file_checksum(name, st)
  IN IF conf.use_file_checksum /\ second_pass
     THEN Digest(Update(hash_obj, get_file_content_checksum(st)))
     ELSE LET h1 == Append(hash_obj, [size |-> st.size, mtime |-> st.mtime])
              h2 == IF conf.use_owner THEN Append(h1, [uid |-> 0, gid |-> 0]) ELSE h1
          IN Digest(h2)

\* ChecksumWalkResult()
NewChecksumWalkResult == [total_size |-> 0, total_files |-> 0, hard_link_map |-> <<>>]

RECURSIVE file_checksum(_, _, _), scan_checksum(_, _, _, _, _)
\* the loop of file_checksum over the sorted entries of a directory
scan_checksum(dir, names, second_pass, hash_obj, result) ==
  IF names = <<>> THEN [hash_obj |-> hash_obj, result |-> result]
  ELSE LET r == file_checksum(Join(dir, Head(names)), second_pass, result)
       IN scan_checksum(dir, Tail(names), second_pass, Update(hash_obj, r.sig), r.result)

\* file_checksum(name, full_path, st, conf, second_pass, result): the digest
\* and the collector as updated
file_checksum(full_path, second_pass, result) ==
  LET st == Stat(full_path)
      name == Basename(full_path)
  IN IF st.isdir
     THEN IF full_path \in unlistable
          THEN [sig |-> EmptyBytes, result |-> result]
          ELSE LET r == scan_checksum(full_path, SortedBytes(ListDir(full_path)), second_pass,
                                      init_file_checksum(name, st), result)
               IN [sig |-> Digest(r.hash_obj),
                   result |-> [r.result EXCEPT !.total_files = @ + 1]]
     ELSE [sig |-> one_file_checksum(name, st, second_pass),
           result |-> [total_size |-> result.total_size + st.size,
                       total_files |-> result.total_files + 1,
                       hard_link_map |-> IF st.nlink > 1
                                         THEN Extend(result.hard_link_map, st.ino, full_path)
                                         ELSE result.hard_link_map]]

\* checksum_walk(names, path, conf, second_pass, result): names is sorted first
checksum_walk(names, path, second_pass, result) ==
  LET r == scan_checksum(path, SortedBytes(names), second_pass, <<>>, result)
  IN [hex |-> Digest(r.hash_obj), result |-> r.result]

\* ------------------------------------------------------ transport adapter
\* f'{conf.reserved_prefix}{file_idx:05d}.tar{conf.compression_suffix}': a pack
\* name holds a '.', which no base32 string does
PackName(idx) == <<46, idx>>

\* f'{conf.reserved_prefix}ROOT.tar{conf.compression_suffix}'
root_name == <<46, -1>>

\* posixpath.join(remote_path, encode_child(child)) along a local path
RemotePath(p) == [i \in 1..(Len(p) - 1) |-> encode_child(p[i + 1])]

\* os.path.relpath(p, base) for p at or under base
RelPath(p, base) == SubSeq(p, Len(base) + 1, Len(p))

IsPrefix(a, b) == Len(a) <= Len(b) /\ SubSeq(b, 1, Len(a)) = a

RECURSIVE SumSizes(_)
SumSizes(S) ==
  IF S = {} THEN 0
  ELSE LET i == CHOOSE x \in S : TRUE IN inodes[i].size + SumSizes(S \ {i})

\* what tar -C base stores for a list of paths (--no-recursion): each member
\* under its name relative to base, with its inode, so that two names of one
\* inode are stored as links
TarContent(base, paths) ==
  {<<RelPath(p, base), IF IsFile(p) THEN tree[p].ino ELSE 0>> : p \in paths}

\* the bytes streamed for a pack: one unit per member and the file data
PackBytes(paths) ==
  Cardinality(paths) + SumSizes({tree[p].ino : p \in {q \in paths : IsFile(q)}})

Op(op, key, is_dir, base, files, group, ok, chunk) ==
  [op |-> op, key |-> key, is_dir |-> is_dir, base |-> base, files |-> files,
   group |-> group, ok |-> ok, chunk |-> chunk]

\* rclone.rclone_delete(path, is_dir, conf): `rclone purge` of a prefix or
\* `rclone delete` of one object; the oracle G.dfail names the call that fails
rclone_delete(key, is_dir, G) ==
  LET n == G.ndel + 1
      ok == n /= G.dfail
      left == IF ~ok THEN DOMAIN G.remote
              ELSE IF is_dir
              THEN {k \in DOMAIN G.remote : ~IsPrefix(Append(key[1], key[2]), k[1])}
              ELSE DOMAIN G.remote \ {key}
  IN [ok |-> ok,
      G |-> [G EXCEPT !.ndel = n, !.remote = Restrict(@, left),
                      !.ops = Append(@, Op("delete", key, is_dir, Root, <<>>, <<>>, ok, <<>>))]]

\* the --s3-chunk-size options rclone_upload appends to `rclone rcat`, in
\* KiB: one, or none
s3_chunk_size(suggested_size) ==
  IF suggested_size > 6000 * conf.s3_min_chunk_size_kib * 1024
  THEN <<Max(conf.s3_min_chunk_size_kib, (suggested_size \div (6000 * 1024)) + 1)>>
  ELSE IF conf.s3_min_chunk_size_kib > 5 * 1024 THEN <<conf.s3_min_chunk_size_kib>>
  ELSE <<>>

\* rclone.rclone_upload(path, files, dest, conf, suggested_size) for a pack of
\* the walk: the bytes transferred, or -1; the oracle G.fails names the calls
\* that fail
rclone_upload(path, members, dest, suggested_size, group, G) ==
  LET n == G.nup + 1
      ok == n \notin G.fails
      files == SortedPaths({RelPath(m, path) : m \in members})
  IN [nbytes |-> IF ok THEN PackBytes(members) ELSE -1,
      G |-> [G EXCEPT !.nup = n,
                      !.remote = IF ok THEN Extend(@, dest, TarContent(path, members)) ELSE @,
                      !.ops = Append(@, Op("upload", dest, FALSE, path, files, group, ok,
                                           s3_chunk_size(suggested_size)))]]

\* --------------------------------------------------------- upload planner
\* SyncWalkResult()
NewSyncWalkResult ==
  [total_size |-> 0, total_files |-> 1, total_transfer_size |-> 0,
   total_transfer_files |-> 1, real_transfer_size |-> 0, real_transfer_files |-> 0,
   force_retain |-> FALSE, hard_link_map |-> <<>>, files_to_tar |-> {},
   files_to_delete |-> <<>>, retained_directories |-> <<>>, metadata |-> None,
   first_checksum |-> EmptyBytes, second_checksum |-> EmptyBytes, error_count |-> 0]

\* SyncWalkResult.set_force_retain
set_force_retain(res, path) ==
  IF res.force_retain THEN res
  ELSE [res EXCEPT !.force_retain = TRUE, !.files_to_tar = {},
                   !.metadata = [files |-> <<>>, children |-> <<>>],
                   !.retained_directories = <<path>>, !.hard_link_map = <<>>]

\* the walk's global state: SyncState (hard_link_map, hard_link_list), the
\* remote store, the log of transport calls, the log of the returns of
\* upload_walk, and the run's oracles: which pack uploads fail, which delete
\* fails, the iteration order of Python sets
NewWalkState(fails, dfail, iter) ==
  [hard_link_map |-> <<>>, hard_link_list |-> {}, remote |-> remote, ops |-> <<>>,
   walks |-> <<>>,
   nup |-> 0, ndel |-> 0, exc |-> "none", fails |-> fails, dfail |-> dfail,
   iter |-> iter]

\* a Python set of names, in the order this run iterates it
InIterOrder(S, iter) == SelectSeq(iter, LAMBDA n : n \in S)

RECURSIVE SortedInts(_)
SortedInts(S) ==
  IF S = {} THEN <<>>
  ELSE LET m == CHOOSE x \in S : \A y \in S : x <= y IN <<m>> \o SortedInts(S \ {m})

\* dict.items() of a (device, inode) -> path map
Items(m) == LET ks == SortedInts(DOMAIN m) IN [i \in 1..Len(ks) |-> <<ks[i], m[ks[i]]>>]

\* update_hardlink_map over a sequence of (key, path) items, then
\* state.hard_link_map.update(hardlinks): a key the state already knows adds
\* the pair (known path, path) to hard_link_list; for a new key the last path
\* of the sequence is recorded
update_hardlinks(items, G) ==
  LET known == DOMAIN G.hard_link_map
      idx == 1..Len(items)
      pairs == {<<G.hard_link_map[items[i][1]], items[i][2]>> : i \in {j \in idx : items[j][1] \in known}}
      fresh == {items[i][1] : i \in {j \in idx : items[j][1] \notin known}}
      last(k) == CHOOSE i \in idx : items[i][1] = k /\ \A j \in idx : items[j][1] = k => j <= i
  IN [G EXCEPT !.hard_link_list = @ \cup pairs,
               !.hard_link_map = [k \in known \cup fresh |->
                                    IF k \in known THEN G.hard_link_map[k]
                                    ELSE items[last(k)][2]]]

\* remote_del(name, is_dir) of upload_walk, when the deletion is executed at
\* once: a failed deletion is counted
DeleteNow(d, F) ==
  [F EXCEPT !.G = d.G, !.res.error_count = IF d.ok THEN @ ELSE @ + 1]

\* a remote_del that queues every deletion
remote_del_queued(path, name, is_dir, F) ==
  [F EXCEPT !.res.files_to_delete =
              Append(@, [path |-> <<RemotePath(path), name>>, is_dir |-> is_dir])]

\* remote_del(name, is_dir) of upload_walk: queued, or executed at once
remote_del(path, name, is_dir, F) ==
  IF conf.delete_after_upload
  THEN [F EXCEPT !.res.files_to_delete =
                   Append(@, [path |-> <<RemotePath(path), name>>, is_dir |-> is_dir])]
  ELSE DeleteNow(rclone_delete(<<RemotePath(path), name>>, is_dir, F.G), F)

Range(seq) == {seq[i] : i \in 1..Len(seq)}

\* a planner that keeps no pack
KeepNoPack(path, remote_file, file_set, stat_map) == FALSE

\* the keep decision of the reuse pass for one previous PackEntry
KeepPack(path, remote_file, file_set, stat_map) ==
  /\ \A f \in file_set : f \in stat_map
  /\ IF conf.use_file_checksum
     THEN /\ "file_size_checksum" \in DOMAIN remote_file
          /\ "file_checksum" \in DOMAIN remote_file
          /\ checksum_walk(file_set, path, FALSE, NewChecksumWalkResult).hex
               = remote_file.file_size_checksum
          /\ checksum_walk(file_set, path, TRUE, NewChecksumWalkResult).hex
               = remote_file.file_checksum
     ELSE /\ "mtime_checksum" \in DOMAIN remote_file
          /\ checksum_walk(file_set, path, FALSE, NewChecksumWalkResult).hex
               = remote_file.mtime_checksum

\* res.metadata['files'][filename] = item: a dict assignment, the position of
\* an existing key kept
PutFile(files, item) ==
  IF \E i \in 1..Len(files) : files[i].name = item.name
  THEN [i \in 1..Len(files) |-> IF files[i].name = item.name THEN item ELSE files[i]]
  ELSE Append(files, item)

\* a kept pack whose members stay pending
KeepWithoutSettling(path, remote_file, file_set, walk_res, F) ==
  [F EXCEPT !.remote_names = @ \cup {remote_file.name},
            !.res = [set_force_retain(@, path) EXCEPT
                       !.metadata.files = PutFile(@, remote_file),
                       !.total_size = @ + walk_res.total_size,
                       !.total_files = @ + walk_res.total_files]]

\* a kept pack: its members are settled and its entry is carried over
KeepWith(path, remote_file, file_set, walk_res, F) ==
  [F EXCEPT !.child_list = @ \ file_set,
            !.remote_names = @ \cup {remote_file.name},
            !.res = [set_force_retain(@, path) EXCEPT
                       !.metadata.files = PutFile(@, remote_file),
                       !.total_size = @ + walk_res.total_size,
                       !.total_files = @ + walk_res.total_files],
            !.G = update_hardlinks(Items(walk_res.hard_link_map), @)]

KeepStep(path, remote_file, file_set, F) ==
  KeepWith(path, remote_file, file_set,
           checksum_walk(file_set, path, FALSE, NewChecksumWalkResult).result, F)

\* a superseded pack: deleted, its name reserved while the deletion is queued
DropStep(path, remote_file, F) ==
  IF conf.delete_after_upload
  THEN [remote_del(path, remote_file.name, FALSE, F) EXCEPT
          !.remote_names = @ \cup {remote_file.name}]
  ELSE remote_del(path, remote_file.name, FALSE, F)

\* [decode_child(i) for i in remote_file['list']]
FileList(remote_file) ==
  {decode_child(remote_file.list[i]) : i \in 1..Len(remote_file.list)}

ReuseStep(path, remote_file, F) ==
  IF KeepPack(path, remote_file, FileList(remote_file), ListDir(path))
  THEN KeepStep(path, remote_file, FileList(remote_file), F)
  ELSE DropStep(path, remote_file, F)

\* the reuse pass: the loop over metadata['files'].items()
RECURSIVE reuse_pass(_, _, _)
reuse_pass(path, files, F) ==
  IF files = <<>> THEN F
  ELSE reuse_pass(path, Tail(files), ReuseStep(path, Head(files), F))

\* "Delete remote directories": the loop over metadata['children']
RECURSIVE delete_children(_, _, _)
delete_children(path, keys, F) ==
  IF keys = <<>> THEN F
  ELSE LET i == Head(keys)
           gone == decode_child(i) \notin F.child_list
                   \/ ~Stat(Join(path, decode_child(i))).isdir
       IN delete_children(path, Tail(keys),
                          IF gone THEN remote_del(path, i, TRUE, F) ELSE F)

\* a multifile_checksum that takes first_checksum of a folded directory in
\* both passes
RECURSIVE multifile_checksum_first(_, _, _, _, _)
multifile_checksum_first(path, names, second_pass, hash_obj, dir_result_map) ==
  IF names = <<>> THEN hash_obj
  ELSE LET ch == Head(names)
           ch_st == Stat(Join(path, ch))
           sig == IF ch_st.isdir
                  THEN dir_result_map[ch].first_checksum
                  ELSE one_file_checksum(ch, ch_st, second_pass)
       IN multifile_checksum_first(path, Tail(names), second_pass, Update(hash_obj, sig),
                                   dir_result_map)

\* multifile_checksum(names, second_pass, hash_obj): names already sorted
RECURSIVE multifile_checksum(_, _, _, _, _)
multifile_checksum(path, names, second_pass, hash_obj, dir_result_map) ==
  IF names = <<>> THEN hash_obj
  ELSE LET ch == Head(names)
           ch_st == Stat(Join(path, ch))
           sig == IF ch_st.isdir
                  THEN IF second_pass /\ conf.use_file_checksum
                       THEN dir_result_map[ch].second_checksum
                       ELSE dir_result_map[ch].first_checksum
                  ELSE one_file_checksum(ch, ch_st, second_pass)
       IN multifile_checksum(path, Tail(names), second_pass, Update(hash_obj, sig),
                             dir_result_map)

Override(a, b) == [k \in DOMAIN a \cup DOMAIN b |-> IF k \in DOMAIN b THEN b[k] ELSE a[k]]

\* res.hard_link_map.update(i.hard_link_map) for i in dir_result_map.values()
RECURSIVE MergeChildLinks(_, _, _)
MergeChildLinks(names, dir_result_map, acc) ==
  IF names = <<>> THEN acc
  ELSE MergeChildLinks(Tail(names), dir_result_map,
                       IF Head(names) \in DOMAIN dir_result_map
                       THEN Override(acc, dir_result_map[Head(names)].hard_link_map)
                       ELSE acc)

\* "update hardlink map" of a folded directory: its own files with nlink > 1
RECURSIVE AddFileLinks(_, _, _)
AddFileLinks(path, names, acc) ==
  IF names = <<>> THEN acc
  ELSE LET st == Stat(Join(path, Head(names)))
       IN AddFileLinks(path, Tail(names),
                       IF ~st.isdir /\ st.nlink > 1
                       THEN Extend(acc, st.ino, Join(path, Head(names)))
                       ELSE acc)

\* the fold branch of upload_walk: the directory is returned as one entry of
\* an ancestor's pack.  A child directory that could not be listed has no
\* entry in dir_result_map, and multifile_checksum raises KeyError on it.
Fold(path, F) ==
  LET names == InIterOrder(F.child_list, F.G.iter)
      drm == F.dir_result_map
      first_hash == init_file_checksum(Basename(path), Stat(path))
      sorted == SortedBytes(F.child_list)
  IN IF \E ch \in F.child_list : Stat(Join(path, ch)).isdir /\ ch \notin DOMAIN drm
     THEN [F EXCEPT !.G.exc = "KeyError"]
     ELSE [F EXCEPT
             !.res.files_to_tar = {path} \cup {Join(path, i) : i \in DOMAIN F.size_map}
                                  \cup UNION {drm[i].files_to_tar : i \in DOMAIN drm},
             !.res.second_checksum =
                IF conf.use_file_checksum
                THEN Digest(multifile_checksum(path, sorted, TRUE, first_hash, drm))
                ELSE @,
             !.res.first_checksum = Digest(multifile_checksum(path, sorted, FALSE, first_hash, drm)),
             !.res.hard_link_map = AddFileLinks(path, names, MergeChildLinks(names, drm, <<>>))]

\* the sort key of group_list; "name" is accepted by the command line and
\* has no branch in upload_walk
GroupKey(path, x, size_map) ==
  IF conf.grouping_order = "size" THEN size_map[x]
  ELSE IF conf.grouping_order = "mtime" THEN Stat(Join(path, x)).mtime
  ELSE Stat(Join(path, x)).ctime

KeyLess(path, x, y, size_map) ==
  \/ GroupKey(path, x, size_map) < GroupKey(path, y, size_map)
  \/ GroupKey(path, x, size_map) = GroupKey(path, y, size_map) /\ BytesLess(x, y)

\* sorted(size_map, key=lambda x: (key(x), x))
RECURSIVE SortedByKey(_, _, _)
SortedByKey(path, S, size_map) ==
  IF S = {} THEN <<>>
  ELSE LET m == CHOOSE x \in S : \A y \in S \ {x} : KeyLess(path, x, y, size_map)
       IN <<m>> \o SortedByKey(path, S \ {m}, size_map)

\* a group left in the order of group_list
UnsortedGroup(current_group) == current_group

\* current_group.sort()
SortGroup(current_group) == SortedBytes(Range(current_group))

NextIdxUnchecked(file_idx, remote_names) == file_idx

\* "Find an available filename": the first index from file_idx on whose name
\* is not in remote_names
NextFreeIdx(file_idx, remote_names) ==
  CHOOSE i \in file_idx..(file_idx + Cardinality(remote_names)) :
    /\ PackName(i) \notin remote_names
    /\ \A j \in file_idx..(i - 1) : PackName(j) \in remote_names

\* the (key, path) items a group hands to update_hardlink_map, member by member
RECURSIVE GroupLinkItems(_, _, _)
GroupLinkItems(path, group, dir_result_map) ==
  IF group = <<>> THEN <<>>
  ELSE LET f == Head(group)
           f_st == Stat(Join(path, f))
           mine == IF f_st.isdir THEN Items(dir_result_map[f].hard_link_map)
                   ELSE IF f_st.nlink > 1 THEN <<<<f_st.ino, Join(path, f)>>>>
                   ELSE <<>>
       IN mine \o GroupLinkItems(path, Tail(group), dir_result_map)

\* upload_list before it is made relative: every path of the group's subtrees
GroupMembers(path, group, dir_result_map) ==
  UNION {IF Stat(Join(path, f)).isdir THEN dir_result_map[f].files_to_tar
         ELSE {Join(path, f)} : f \in Range(group)}

\* meta_item: the PackEntry of a group
MetaItem(path, upload_name, group, dir_result_map) ==
  LET list == [k \in 1..Len(group) |-> encode_child(group[k])]
  IN IF conf.use_file_checksum
     THEN [name |-> upload_name, list |-> list,
           file_size_checksum |-> Digest(multifile_checksum(path, group, FALSE, <<>>, dir_result_map)),
           file_checksum |-> Digest(multifile_checksum(path, group, TRUE, <<>>, dir_result_map))]
     ELSE [name |-> upload_name, list |-> list,
           mtime_checksum |-> Digest(multifile_checksum(path, group, FALSE, <<>>, dir_result_map))]

\* a failed upload whose entry stays in the new metadata
UploadFailedEntryKept(res, upload_name) == [res EXCEPT !.error_count = @ + 1]

\* what upload_walk does when remote_upload fails: the entry is deleted from
\* the new metadata and one error is counted
UploadFailed(res, upload_name) ==
  [res EXCEPT !.metadata.files = SelectSeq(@, LAMBDA e : e.name /= upload_name),
              !.error_count = @ + 1]

\* remote_upload and what follows it: the counters on success; on failure
\* the entry is deleted and the error counted
AfterUpload(upload_name, up, F) ==
  [F EXCEPT !.G = up.G,
            !.res = IF up.nbytes < 0 THEN UploadFailed(@, upload_name)
                    ELSE [@ EXCEPT !.real_transfer_size = @ + up.nbytes,
                                   !.real_transfer_files = @ + 1]]

\* a closed group under its name: PackEntry, hard links, and remote_upload,
\* which calls rclone_upload without suggested_size, so with its default 0
EmitNamed(path, group, idx, F) ==
  [file_idx |-> idx,
   F |-> AfterUpload(
           PackName(idx),
           rclone_upload(path, GroupMembers(path, group, F.dir_result_map),
                         <<RemotePath(path), PackName(idx)>>, 0, group,
                         update_hardlinks(GroupLinkItems(path, group, F.dir_result_map), F.G)),
           [F EXCEPT !.res.metadata.files =
                       PutFile(@, MetaItem(path, PackName(idx), group, F.dir_result_map))])]

\* one closed group: sorted, then named with the first free index
EmitPack(path, current_group, file_idx, F) ==
  EmitNamed(path, SortGroup(current_group), NextFreeIdx(file_idx, F.remote_names), F)

\* the loop over group_list: a group closes when it exceeds merge_threshold
\* or at the end of the list
RECURSIVE EmitGroups(_, _, _, _, _, _, _), CloseGroup(_, _, _, _)
EmitGroups(path, group_list, i, group_size, file_idx, current_group, F) ==
  IF i > Len(group_list) THEN F
  ELSE IF \/ group_size + F.size_map[group_list[i]] > conf.merge_threshold
          \/ i = Len(group_list)
  THEN CloseGroup(path, group_list, i,
                  EmitPack(path, Append(current_group, group_list[i]), file_idx, F))
  ELSE EmitGroups(path, group_list, i + 1, group_size + F.size_map[group_list[i]],
                  file_idx, Append(current_group, group_list[i]), F)

CloseGroupKeepSize(path, group_list, i, P) ==
  EmitGroups(path, group_list, i + 1, conf.merge_threshold, P.file_idx + 1, <<>>, P.F)

\* current_group = [], group_size = 0, file_idx += 1
CloseGroup(path, group_list, i, P) ==
  EmitGroups(path, group_list, i + 1, 0, P.file_idx + 1, <<>>, P.F)

\* the pack emission branch of upload_walk
Emit(path, F) ==
  IF conf.grouping_order \notin {"size", "mtime", "ctime"}
  THEN [F EXCEPT !.res = set_force_retain(@, path), !.G.exc = "NotImplementedError"]
  ELSE EmitGroups(path, SortedByKey(path, DOMAIN F.size_map, F.size_map), 1, 0, 0, <<>>,
                  [F EXCEPT !.res = set_force_retain(@, path)])

\* a walked child directory is merged into its parent's result
MergeChild(path, child, child_res, F) ==
  LET res1 == IF child_res.force_retain
              THEN LET r == set_force_retain(F.res, path)
                   IN [r EXCEPT !.retained_directories = @ \o child_res.retained_directories,
                                !.metadata.children = Extend(@, encode_child(child), child_res.metadata),
                                !.real_transfer_size = @ + child_res.real_transfer_size,
                                !.real_transfer_files = @ + child_res.real_transfer_files]
              ELSE F.res
  IN [F EXCEPT
        !.dir_result_map = Extend(@, child, child_res),
        !.size_map = IF child_res.force_retain THEN @
                     ELSE Extend(@, child, child_res.total_size
                                           + child_res.total_files * conf.file_base_bytes),
        !.res = [res1 EXCEPT !.total_size = @ + child_res.total_size,
                             !.total_files = @ + child_res.total_files,
                             !.total_transfer_size = @ + child_res.total_transfer_size,
                             !.total_transfer_files = @ + child_res.total_transfer_files,
                             !.files_to_delete = @ \o child_res.files_to_delete,
                             !.error_count = @ + child_res.error_count]]

\* a child that is not a directory
AddFile(child, child_st, F) ==
  [F EXCEPT !.size_map = Extend(@, child, child_st.st_size + conf.file_base_bytes),
            !.res = [@ EXCEPT !.total_size = @ + child_st.st_size,
                              !.total_files = @ + 1,
                              !.total_transfer_size = @ + child_st.st_size,
                              !.total_transfer_files = @ + 1]]

\* metadata and metadata['children'].get(encode_child(child))
MetaChild(metadata, child) ==
  IF IsNone(metadata) THEN None
  ELSE IF encode_child(child) \in DOMAIN metadata.children
  THEN metadata.children[encode_child(child)]
  ELSE None

\* what the loop does with the result of the recursion into a child
AfterChild(path, child, w, F) ==
  IF w.absent \/ w.G.exc /= "none" THEN [F EXCEPT !.G = w.G]
  ELSE MergeChild(path, child, w.res, [F EXCEPT !.G = w.G])

\* the frame of one call of upload_walk: its result so far, the global
\* state, and its local collections
WalkFrame(path, G) ==
  [res |-> NewSyncWalkResult, G |-> G, child_list |-> ListDir(path),
   remote_names |-> {}, dir_result_map |-> <<>>, size_map |-> <<>>]

\* "check metadata": the reuse pass, then the deletion of remote directories
CheckMetadata(path, metadata, F) ==
  IF IsNone(metadata) THEN F
  ELSE delete_children(path, SortedBytes(DOMAIN metadata.children),
                       reuse_pass(path, metadata.files, F))

DecideByWeightAlone(path, is_root, F) ==
  IF F.G.exc /= "none" THEN F
  ELSE IF /\ ~F.res.force_retain
          /\ F.res.total_size + F.res.total_files * conf.file_base_bytes
               <= conf.merge_threshold
  THEN Fold(path, F)
  ELSE Emit(path, F)

\* fold into an ancestor's pack, or emit packs here
Decide(path, is_root, F) ==
  IF F.G.exc /= "none" THEN F
  ELSE IF /\ ~is_root
          /\ ~F.res.force_retain
          /\ F.res.total_size + F.res.total_files * conf.file_base_bytes
               <= conf.merge_threshold
  THEN Fold(path, F)
  ELSE Emit(path, F)

WalkResult(F) == [absent |-> FALSE, res |-> F.res, G |-> F.G]

\* one return of upload_walk: the directory, the packs the reuse pass kept,
\* force_retain of each walked child directory, the pending children
\* (size_map), and the result returned
WalkReturn(path, is_root, F0, F1) ==
  [path |-> path, is_root |-> is_root, absent |-> FALSE,
   kept |-> IF IsNone(F0.res.metadata) THEN <<>> ELSE F0.res.metadata.files,
   children |-> [c \in DOMAIN F0.dir_result_map |-> F0.dir_result_map[c].force_retain],
   size_map |-> F0.size_map,
   res |-> F1.res]

\* `return None` of upload_walk
AbsentReturn(path, is_root) == [path |-> path, is_root |-> is_root, absent |-> TRUE]

\* the return is logged unless the walk raised
Returning(path, is_root, F0, F1) ==
  IF F1.G.exc /= "none" THEN F1
  ELSE [F1 EXCEPT !.G.walks = Append(@, WalkReturn(path, is_root, F0, F1))]

DecideAndReturn(path, is_root, F) == Returning(path, is_root, F, Decide(path, is_root, F))

RECURSIVE upload_walk(_, _, _, _), WalkChildren(_, _, _, _), WalkChild(_, _, _, _)
\* one child of the loop "for child in child_list"
WalkChild(path, metadata, child, F) ==
  IF Stat(Join(path, child)).isdir
  THEN AfterChild(path, child,
                  upload_walk(Join(path, child), MetaChild(metadata, child), FALSE, F.G), F)
  ELSE AddFile(child, [st_size |-> Stat(Join(path, child)).size], F)

\* the loop "for child in child_list" of upload_walk
WalkChildren(path, metadata, names, F) ==
  IF names = <<>> \/ F.G.exc /= "none" THEN F
  ELSE WalkChildren(path, metadata, Tail(names), WalkChild(path, metadata, Head(names), F))

ChildLoop(path, metadata, F) ==
  WalkChildren(path, metadata, InIterOrder(F.child_list, F.G.iter), F)

\* upload_walk(path, remote_path, st, metadata, conf, state, is_root): absent
\* when the directory cannot be listed, else the SyncWalkResult; G is the
\* global state as the walk leaves it
upload_walk(path, metadata, is_root, G) ==
  IF path \in unlistable
  THEN [absent |-> TRUE, res |-> NewSyncWalkResult,
        G |-> [G EXCEPT !.walks = Append(@, AbsentReturn(path, is_root))]]
  ELSE WalkResult(DecideAndReturn(path, is_root,
                                  ChildLoop(path, metadata,
                                            CheckMetadata(path, metadata, WalkFrame(path, G)))))

\* the loop over res.files_to_delete of upload: the queued deletions
RECURSIVE PendingDeletes(_, _), PendingDelete(_, _, _)
PendingDeletes(files_to_delete, U) ==
  IF files_to_delete = <<>> THEN U
  ELSE PendingDelete(Tail(files_to_delete),
                     rclone_delete(Head(files_to_delete).path,
                                   Head(files_to_delete).is_dir, U.G), U)

PendingDelete(rest, d, U) ==
  PendingDeletes(rest, [U EXCEPT !.G = d.G,
                                 !.res.error_count = IF d.ok THEN @ ELSE @ + 1])

\* "always update retained directories": the skeleton pack is uploaded by
\* every run, and a failure of it is not counted
SkeletonUpload(U, ok) ==
  [U EXCEPT
     !.res = IF ok THEN [@ EXCEPT !.real_transfer_size = @ + Len(U.res.retained_directories),
                                  !.real_transfer_files = @ + 1]
             ELSE @,
     !.G = [@ EXCEPT
              !.remote = IF ok THEN Extend(@, <<RemotePath(Root), root_name>>,
                                           {<<p, 0>> : p \in Range(U.res.retained_directories)})
                         ELSE @,
              !.ops = Append(@, Op("upload", <<RemotePath(Root), root_name>>, FALSE, Root,
                                   SortedPaths(Range(U.res.retained_directories)), <<>>, ok,
                                   s3_chunk_size(0)))]]

\* DisjointSet: union(x, y) over hard_link_list, then itersets()
RECURSIVE Reach(_, _)
Reach(S, pairs) ==
  LET T == S \cup {p[2] : p \in {q \in pairs : q[1] \in S}}
             \cup {p[1] : p \in {q \in pairs : q[2] \in S}}
  IN IF T = S THEN S ELSE Reach(T, pairs)

Components(pairs) ==
  {Reach({x}, pairs) : x \in {p[1] : p \in pairs} \cup {p[2] : p \in pairs}}

Perms(S) ==
  {f \in [1..Cardinality(S) -> S] : \A i, j \in 1..Cardinality(S) : f[i] = f[j] => i = j}

\* the orders in which itersets() may hand out the members of each set
GroupOrders(comps) ==
  LET all == UNION {Perms(c) : c \in comps}
  IN {{f[c] : c \in comps} : f \in {g \in [comps -> all] : \A c \in comps : Range(g[c]) = c}}

\* encode_child(os.path.relpath(j, path)) for j in i
HardLinkGroup(order) ==
  [k \in 1..Len(order) |-> encode_child(PathBytes(RelPath(order[k], Root)))]

\* the Document upload builds
Document(res, orders) ==
  [version |-> conf.metadata_version,
   meta |-> res.metadata,
   root_name |-> root_name,
   checksum |-> [use_file_checksum |-> conf.use_file_checksum,
                 use_directory_mtime |-> conf.use_directory_mtime,
                 hash_function |-> conf.hash_function],
   hard_links |-> {[group |-> HardLinkGroup(o)] : o \in orders}]

\* upload after the walk: nothing more when the walk returned None or
\* raised; else the queued deletions and the skeleton pack
AfterWalk(w, skel_ok) ==
  IF w.absent THEN [status |-> "absent", res |-> w.res, G |-> w.G]
  ELSE IF w.G.exc /= "none" THEN [status |-> w.G.exc, res |-> w.res, G |-> w.G]
  ELSE SkeletonUpload(PendingDeletes(w.res.files_to_delete,
                                     [status |-> "ok", res |-> w.res, G |-> w.G]),
                      skel_ok)

\* upload(path, remote_path, metadata, conf) up to the Document
upload(metadata, flt, iter) ==
  AfterWalk(upload_walk(Root, IF IsNone(metadata) THEN None ELSE metadata.meta, TRUE,
                        NewWalkState(flt.fails, flt.dfail, iter)),
            flt.skel_ok)

\* cli.upload_func after upload returns: the exit status of the process
ExitStatus(result) == IF result.error_count > 0 THEN 1 ELSE 0

\* the orders in which a run may iterate a Python set of names
IterOrders ==
  LET up == SortedBytes(Names)
  IN {up, [i \in 1..Len(up) |-> up[Len(up) + 1 - i]]}

\* the faults of one run: none, or (while the history may still be
\* disturbed) one failing pack upload, one failing deletion, or a failing
\* skeleton upload
NoFault == [fails |-> {}, dfail |-> 0, skel_ok |-> TRUE]

Faults ==
  {NoFault}
  \cup {[NoFault EXCEPT !.fails = {k}] : k \in 1..MaxNodes}
  \cup {[NoFault EXCEPT !.dfail = k] : k \in 1..MaxNodes}
  \cup {[NoFault EXCEPT !.skel_ok = FALSE]}

\* the fault named by flt did happen in the run u
Happened(flt, u) ==
  /\ \A k \in flt.fails : k <= u.G.nup
  /\ flt.dfail <= u.G.ndel
  /\ ~flt.skel_ok => u.status = "ok"

\* what a run leaves for inspection
RunRecord(status, res, G, doc) ==
  [status |-> status, res |-> res, ops |-> G.ops, walks |-> G.walks, doc |-> doc,
   prior |-> meta,
   hard_link_list |-> G.hard_link_list,
   tree |-> tree, inodes |-> inodes, unlistable |-> unlistable,
   remote_before |-> remote,
   exit_status |-> IF status = "ok" THEN ExitStatus(res) ELSE 1]

\* one run of upload on the tree as it is, with the Document of the last
\* completed run
Upload ==
  /\ nruns < MaxRuns
  /\ IsNone(dl) /\ IsNone(ld)
  /\ \E iter \in IterOrders, flt \in IF nchanges < MaxChanges THEN Faults ELSE {NoFault} :
       \E u \in {upload(meta, flt, iter)} :
         /\ Happened(flt, u)
         /\ nchanges' = IF flt = NoFault THEN nchanges ELSE nchanges + 1
         /\ remote' = u.G.remote
         /\ IF u.status /= "ok"
            THEN /\ run' = RunRecord(u.status, u.res, u.G, None)
                 /\ meta' = meta
            ELSE \E orders \in GroupOrders(Components(u.G.hard_link_list)) :
                   \E doc \in {Document(u.res, orders)} :
                     /\ run' = RunRecord("ok", [u.res EXCEPT !.metadata = doc], u.G, doc)
                     /\ meta' = doc
  /\ prev' = run
  /\ nruns' = nruns + 1
  /\ UNCHANGED <<tree, inodes, unlistable, conf, dl, ld, xfer>>

\* ------------------------------------------------------------- download
\* DownloadWalkResult(), with the target tree as restored so far, the log of
\* the steps taken (the pack downloads and the hard links restored), and the
\* run's oracle: which call of rclone_download fails, 0 for none
NewDownload ==
  [real_transfer_size |-> 0, real_transfer_files |-> 0, error_count |-> 0,
   fs |-> <<>>, exc |-> "none", steps |-> <<>>, ndl |-> 0, dlfail |-> 0]

Step(op, key, dest, ok) == [op |-> op, key |-> key, dest |-> dest, ok |-> ok]

\* tar -C dest -x of one pack: every member under dest; two members of one
\* inode of one pack are restored as links of each other
Member(content, dest, p) == CHOOSE m \in content : dest \o m[1] = p

Extract(key, dest, D) ==
  [D EXCEPT
     !.fs = Override(@, [p \in {dest \o m[1] : m \in remote[key]} |->
                           IF Member(remote[key], dest, p)[2] = 0
                           THEN [kind |-> "dir", id |-> <<>>]
                           ELSE [kind |-> "file",
                                 id |-> <<key, Member(remote[key], dest, p)[2]>>]]),
     !.real_transfer_files = @ + 1,
     !.real_transfer_size = @ + Cardinality(remote[key])]

\* rclone.rclone_download(path, dest, conf) and the caller's accounting
rclone_download(key, dest, D) ==
  IF key \in DOMAIN remote /\ D.ndl + 1 /= D.dlfail
  THEN [Extract(key, dest, D) EXCEPT !.steps = Append(@, Step("download", key, dest, TRUE)),
                                     !.ndl = @ + 1]
  ELSE [D EXCEPT !.error_count = @ + 1, !.ndl = @ + 1,
                 !.steps = Append(@, Step("download", key, dest, FALSE))]

\* os.makedirs(path, exist_ok=True)
MakeDirs(path, D) ==
  [D EXCEPT !.fs = Override([p \in {SubSeq(path, 1, k) : k \in 1..Len(path)} |->
                               [kind |-> "dir", id |-> <<>>]], @)]

RECURSIVE download_walk(_, _, _, _), DownloadFiles(_, _, _), DownloadChildren(_, _, _, _, _)
\* the loop over metadata['files']
DownloadFiles(path, files, D) ==
  IF files = <<>> THEN D
  ELSE DownloadFiles(path, Tail(files),
                     rclone_download(<<RemotePath(path), Head(files).name>>, path, D))

\* the loop over metadata['children'].items()
DownloadChildren(path, children, keys, dest_as_empty, D) ==
  IF keys = <<>> THEN D
  ELSE DownloadChildren(path, children, Tail(keys), dest_as_empty,
                        download_walk(Join(path, decode_child(Head(keys))),
                                      children[Head(keys)], dest_as_empty, D))

\* download.download_walk
download_walk(path, metadata, dest_as_empty, D) ==
  IF ~dest_as_empty THEN [MakeDirs(path, D) EXCEPT !.exc = "NotImplementedError"]
  ELSE DownloadChildren(path, metadata.children, SortedBytes(DOMAIN metadata.children),
                        dest_as_empty,
                        DownloadFiles(path, metadata.files, MakeDirs(path, D)))

\* a relative path as bytes, split at '/'
RECURSIVE SplitPath(_)
SplitPath(bytes) ==
  IF \E i \in 1..Len(bytes) : bytes[i] = 47
  THEN LET i == CHOOSE k \in 1..Len(bytes) :
                  bytes[k] = 47 /\ \A j \in 1..(k - 1) : bytes[j] /= 47
       IN <<SubSeq(bytes, 1, i - 1)>> \o SplitPath(SubSeq(bytes, i + 1, Len(bytes)))
  ELSE <<bytes>>

\* os.path.join(path, decode_child(member)) for a member of a group
GroupPath(member) == Root \o SplitPath(decode_child(member))

\* os.stat(fdir); os.remove(fpath); os.link(link_src, fpath): an OSError at
\* any of them is counted and the next member is taken
Relink(link_src, fpath, D) ==
  IF fpath \notin DOMAIN D.fs \/ D.fs[fpath].kind /= "file"
  THEN [D EXCEPT !.error_count = @ + 1,
                 !.steps = Append(@, Step("link", link_src, fpath, FALSE))]
  ELSE IF link_src \notin DOMAIN D.fs \/ D.fs[link_src].kind /= "file" \/ link_src = fpath
  THEN [D EXCEPT !.fs = Restrict(@, DOMAIN @ \ {fpath}), !.error_count = @ + 1,
                 !.steps = Append(@, Step("link", link_src, fpath, FALSE))]
  ELSE [D EXCEPT !.fs[fpath] = D.fs[link_src],
                 !.steps = Append(@, Step("link", link_src, fpath, TRUE))]

\* for i in group[1:]
RECURSIVE RestoreGroup(_, _, _)
RestoreGroup(group, i, D) ==
  IF i > Len(group) THEN D
  ELSE RestoreGroup(group, i + 1, Relink(GroupPath(group[1]), GroupPath(group[i]), D))

\* "Restore hard links": for item in metadata['hard_links']
RECURSIVE RestoreLinks(_, _)
RestoreLinks(hard_links, D) ==
  IF hard_links = {} THEN D
  ELSE RestoreLinks(hard_links \ {CHOOSE item \in hard_links : TRUE},
                    RestoreGroup((CHOOSE item \in hard_links : TRUE).group, 2, D))

AfterDownloadWalkLinksLast(metadata, D) ==
  IF D.exc /= "none" THEN D
  ELSE RestoreLinks(metadata.hard_links,
                    rclone_download(<<RemotePath(Root), metadata.root_name>>, Root, D))

\* download after the walk: the hard links, then the skeleton pack
AfterDownloadWalk(metadata, D) ==
  IF D.exc /= "none" THEN D
  ELSE rclone_download(<<RemotePath(Root), metadata.root_name>>, Root,
                       RestoreLinks(metadata.hard_links, D))

\* download.download(path, remote_path, metadata, conf): the configuration is
\* read from metadata['checksum'], a missing key raises KeyError
download(metadata, dest_as_empty, dlfail) ==
  IF {"use_file_checksum", "use_directory_mtime", "use_owner", "hash_function"}
       \subseteq DOMAIN metadata.checksum
  THEN AfterDownloadWalk(metadata, download_walk(Root, metadata.meta, dest_as_empty,
                                               [NewDownload EXCEPT !.dlfail = dlfail]))
  ELSE [NewDownload EXCEPT !.exc = "KeyError", !.dlfail = dlfail]

\* the faults of one download: none, or the first transfer fails
DownloadFaults == {0, 1}

\* cli.download_func after download returns
DownloadExitStatus(result) == IF result.error_count > 0 THEN 1 ELSE 0

\* the Documents a download may be given: the one upload built, and the same
\* with the use_owner key download reads
WithOwner(doc) ==
  [doc EXCEPT !.checksum = [use_file_checksum |-> @.use_file_checksum,
                            use_directory_mtime |-> @.use_directory_mtime,
                            use_owner |-> conf.use_owner,
                            hash_function |-> @.hash_function]]

\* one download of the remote store into an empty target
Download ==
  /\ IsNone(dl) /\ IsNone(ld)
  /\ ~IsNone(meta)
  /\ \E m \in {meta, WithOwner(meta)}, dest_as_empty \in BOOLEAN, dlfail \in DownloadFaults :
       \E d \in {download(m, dest_as_empty, dlfail)} :
         /\ d.dlfail <= d.ndl
         /\ dl' = [status |-> IF d.exc = "none" THEN "ok" ELSE d.exc,
                   metadata |-> m,
                   fs |-> d.fs,
                   steps |-> d.steps,
                   error_count |-> d.error_count,
                   real_transfer_files |-> d.real_transfer_files,
                   exit_status |-> IF d.exc = "none" THEN DownloadExitStatus(d) ELSE 1]
  /\ UNCHANGED <<uvars, ld, xfer>>

\* ------------------------------------------------------ metadata store
\* what the metadata location holds: nothing, bytes that are not a gzip
\* stream, a gzip stream whose text is not JSON, or the gzip of the JSON
\* text of a Document
StoredObjects(doc) ==
  {[kind |-> "absent"], [kind |-> "bytes"], [kind |-> "gzip", text |-> [kind |-> "garbage"]]}
  \cup (IF IsNone(doc) THEN {} ELSE {[kind |-> "gzip", text |-> [kind |-> "json", value |-> doc]]})

Returned(value) == [status |-> "ok", value |-> value]

Raised(exc) == [status |-> exc, value |-> None]

\* GzipFile(...) then json.load(f)
json_load(obj) ==
  IF obj.kind /= "gzip" THEN Raised("BadGzipFile")
  ELSE IF obj.text.kind /= "json" THEN Raised("JSONDecodeError")
  ELSE Returned(obj.text.value)

\* metadata.load_metadata: at a remote location rclone cat gives the bytes
\* or fails, and JSONDecodeError is caught; at a local path only
\* FileNotFoundError is caught
load_metadata(is_remote, obj) ==
  IF obj.kind = "absent" THEN Returned(None)
  ELSE IF is_remote /\ json_load(obj).status = "JSONDecodeError" THEN Returned(None)
  ELSE json_load(obj)

\* a call of load_metadata, as at the start of a run, on what the metadata
\* location holds
Load ==
  /\ nruns < MaxRuns
  /\ IsNone(dl) /\ IsNone(ld)
  /\ \E is_remote \in BOOLEAN, obj \in StoredObjects(meta) :
       ld' = [is_remote |-> is_remote, obj |-> obj, result |-> load_metadata(is_remote, obj)]
  /\ UNCHANGED <<uvars, dl, xfer>>

Init ==
  /\ tree = <<>>
  /\ inodes = <<>>
  /\ unlistable = {}
  /\ conf \in ConfSet
  /\ meta = None
  /\ remote = <<>>
  /\ run = None
  /\ prev = None
  /\ nruns = 0
  /\ nchanges = 0
  /\ dl = None
  /\ ld = None
  /\ xfer = None

\* a history ends with a download or with a load of the metadata
Next == Env \/ Upload \/ Download \/ Load

Spec == Init /\ [][Next]_vars

\* --------------------------------------------- second specification
\* the runs of both deletion modes, on the trees built from the empty
\* directory and on trees with two sibling directories that each hold a
\* pack of their own
DeleteBeforeConf == [DefaultConf EXCEPT !.delete_after_upload = FALSE]

\* r/a/a and r/g/a, two files or two links of one inode
TwoDirTrees ==
  {[tree |-> (<<Root[1], <<97>>>> :> [kind |-> "dir", ino |-> 0])
             @@ (<<Root[1], <<97>>, <<97>>>> :> [kind |-> "file", ino |-> 1])
             @@ (<<Root[1], <<103>>>> :> [kind |-> "dir", ino |-> 0])
             @@ (<<Root[1], <<103>>, <<97>>>> :> [kind |-> "file", ino |-> i]),
    inodes |-> [k \in 1..i |-> [size |-> s, mtime |-> 0, ctime |-> 0, content |-> 0]]]
     : i \in 1..2, s \in Sizes}

InitModes ==
  /\ \E t \in {[tree |-> <<>>, inodes |-> <<>>]} \cup TwoDirTrees :
       tree = t.tree /\ inodes = t.inodes
  /\ unlistable = {}
  /\ conf \in {DefaultConf, DeleteBeforeConf}
  /\ meta = None
  /\ remote = <<>>
  /\ run = None
  /\ prev = None
  /\ nruns = 0
  /\ nchanges = 0
  /\ dl = None
  /\ ld = None
  /\ xfer = None

SpecModes == InitModes /\ [][Next]_vars

\* the runs of both checksum modes: time mode compares size and mtime,
\* content mode (use_file_checksum) the content of each file as well.  The
\* threshold lets a directory that holds a one-byte file fold into a pack of
\* its parent.
InitChecksumModes ==
  /\ tree = <<>>
  /\ inodes = <<>>
  /\ unlistable = {}
  /\ \E use_file_checksum \in BOOLEAN :
       conf = [DefaultConf EXCEPT !.merge_threshold = 3,
                                  !.use_file_checksum = use_file_checksum]
  /\ meta = None
  /\ remote = <<>>
  /\ run = None
  /\ prev = None
  /\ nruns = 0
  /\ nchanges = 0
  /\ dl = None
  /\ ld = None
  /\ xfer = None

SpecChecksumModes == InitChecksumModes /\ [][Next]_vars

\* --------------------------------------------- third specification
\* One call of rclone_upload or rclone_download as the processes and threads
\* it is made of: the subprocess that writes the data pipe (tar for an
\* upload, rclone cat for a download), the subprocess that reads it (rclone
\* rcat, tar -x), the main thread's copy loop between the two, and the two
\* read_thread drainers of the stderr pipes.  A subprocess that has begun a
\* write or a read stays in it until the pipe lets it through; between two
\* system calls it may exit, with any status.
PipeCap == 1
MaxData == 2
MaxErr == 2

\* the state after the two Popen calls and the two Thread.start calls: tar
\* writes the data pipe of an upload, rclone that of a download
NewTransfer(call, todo, werr, rerr) ==
  [call |-> call,
   writer |-> IF call = "rclone_upload" THEN "tar" ELSE "rclone",
   reader |-> IF call = "rclone_upload" THEN "rclone" ELSE "tar",
   pc |-> "readinto",
   proc |-> [p \in {"tar", "rclone"} |->
              [st |-> "run", status |-> 0,
               err |-> IF (p = "tar") <=> (call = "rclone_upload") THEN werr ELSE rerr]],
   todo |-> todo, eof |-> FALSE,
   data_in |-> 0, data_out |-> 0, fp_open |-> TRUE, out_open |-> TRUE,
   stderr |-> [p \in {"tar", "rclone"} |-> 0],
   thr |-> [p \in {"tar", "rclone"} |-> "run"],
   total_bytes |-> 0, result |-> 0]

\* the subprocess writing the data pipe
WriterBeginData ==
  /\ xfer.proc[xfer.writer].st = "run" /\ xfer.todo > 0
  /\ xfer' = [xfer EXCEPT !.proc[xfer.writer].st = "write_data"]
  /\ UNCHANGED <<uvars, dl, ld>>

\* write(2) on its stdout: EPIPE once the main thread closed the other end
WriterData ==
  /\ xfer.proc[xfer.writer].st = "write_data"
  /\ IF ~xfer.fp_open
     THEN xfer' = [xfer EXCEPT !.proc[xfer.writer].st = "exit",
                              !.proc[xfer.writer].status = 1]
     ELSE /\ xfer.data_in < PipeCap
          /\ xfer' = [xfer EXCEPT !.proc[xfer.writer].st = "run", !.todo = @ - 1,
                                  !.data_in = @ + 1]
  /\ UNCHANGED <<uvars, dl, ld>>

\* the subprocess reading the data pipe
ReaderBeginData ==
  /\ xfer.proc[xfer.reader].st = "run" /\ ~xfer.eof
  /\ xfer' = [xfer EXCEPT !.proc[xfer.reader].st = "read_data"]
  /\ UNCHANGED <<uvars, dl, ld>>

\* read(2) on its stdin: data, or end of file once the main thread closed
\* the other end
ReaderData ==
  /\ xfer.proc[xfer.reader].st = "read_data"
  /\ IF xfer.data_out > 0
     THEN xfer' = [xfer EXCEPT !.proc[xfer.reader].st = "run", !.data_out = @ - 1]
     ELSE /\ ~xfer.out_open
          /\ xfer' = [xfer EXCEPT !.proc[xfer.reader].st = "run", !.eof = TRUE]
  /\ UNCHANGED <<uvars, dl, ld>>

\* either subprocess writing to its stderr pipe
BeginErr(p) ==
  /\ xfer.proc[p].st = "run" /\ xfer.proc[p].err > 0
  /\ xfer' = [xfer EXCEPT !.proc[p].st = "write_err"]
  /\ UNCHANGED <<uvars, dl, ld>>

WriteErr(p) ==
  /\ xfer.proc[p].st = "write_err" /\ xfer.stderr[p] < PipeCap
  /\ xfer' = [xfer EXCEPT !.proc[p].st = "run", !.proc[p].err = @ - 1,
                          !.stderr[p] = @ + 1]
  /\ UNCHANGED <<uvars, dl, ld>>

\* either subprocess exiting between two system calls, with any status
Exit(p) ==
  /\ xfer.proc[p].st = "run"
  /\ \E status \in {0, 1} :
       xfer' = [xfer EXCEPT !.proc[p].st = "exit", !.proc[p].status = status]
  /\ UNCHANGED <<uvars, dl, ld>>

\* read_thread(proc.stderr, res): f.read() up to end of file
read_thread(p) ==
  /\ xfer.thr[p] = "run"
  /\ IF xfer.stderr[p] > 0
     THEN xfer' = [xfer EXCEPT !.stderr[p] = @ - 1]
     ELSE /\ xfer.proc[p].st = "exit"
          /\ xfer' = [xfer EXCEPT !.thr[p] = "done"]
  /\ UNCHANGED <<uvars, dl, ld>>

\* fp.readinto(buffer): data, or 0 at end of file, which ends the loop
MainReadInto ==
  /\ xfer.pc = "readinto"
  /\ IF xfer.data_in > 0
     THEN xfer' = [xfer EXCEPT !.data_in = @ - 1, !.pc = "write"]
     ELSE /\ xfer.proc[xfer.writer].st = "exit"
          /\ xfer' = [xfer EXCEPT !.pc = "close"]
  /\ UNCHANGED <<uvars, dl, ld>>

\* out.write(buffer[:n]): BrokenPipeError, an OSError, once the reader exited
MainWrite ==
  /\ xfer.pc = "write"
  /\ IF xfer.proc[xfer.reader].st = "exit"
     THEN xfer' = [xfer EXCEPT !.pc = "close"]
     ELSE /\ xfer.data_out < PipeCap
          /\ xfer' = [xfer EXCEPT !.data_out = @ + 1, !.total_bytes = @ + 1,
                                  !.pc = "readinto"]
  /\ UNCHANGED <<uvars, dl, ld>>

\* a with block that leaves the reader's stdin open
MainCloseLeavingOut ==
  /\ xfer.pc = "close"
  /\ xfer' = [xfer EXCEPT !.fp_open = FALSE, !.pc = "join_threrr"]
  /\ UNCHANGED <<uvars, dl, ld>>

\* the end of the with block: both ends of the main thread are closed
MainClose ==
  /\ xfer.pc = "close"
  /\ xfer' = [xfer EXCEPT !.fp_open = FALSE, !.out_open = FALSE, !.pc = "join_threrr"]
  /\ UNCHANGED <<uvars, dl, ld>>

\* threrr.join()
MainJoinRclone ==
  /\ xfer.pc = "join_threrr" /\ xfer.thr["rclone"] = "done"
  /\ xfer' = [xfer EXCEPT !.pc = "join_thrtarerr"]
  /\ UNCHANGED <<uvars, dl, ld>>

\* thrtarerr.join()
MainJoinTar ==
  /\ xfer.pc = "join_thrtarerr" /\ xfer.thr["tar"] = "done"
  /\ xfer' = [xfer EXCEPT !.pc = "wait"]
  /\ UNCHANGED <<uvars, dl, ld>>

\* status = tar_proc.wait(), rclone_proc.wait() and the result
MainWait ==
  /\ xfer.pc = "wait"
  /\ xfer.proc["tar"].st = "exit" /\ xfer.proc["rclone"].st = "exit"
  /\ xfer' = [xfer EXCEPT
                !.pc = "done",
                !.result = IF xfer.proc["rclone"].status /= 0 THEN -1
                           ELSE IF xfer.proc["tar"].status /= 0 THEN -1
                           ELSE xfer.total_bytes]
  /\ UNCHANGED <<uvars, dl, ld>>

InitTransfer ==
  /\ tree = <<>>
  /\ inodes = <<>>
  /\ unlistable = {}
  /\ conf = DefaultConf
  /\ meta = None
  /\ remote = <<>>
  /\ run = None
  /\ prev = None
  /\ nruns = 0
  /\ nchanges = 0
  /\ dl = None
  /\ ld = None
  /\ \E call \in {"rclone_upload", "rclone_download"},
        todo \in 0..MaxData, werr \in 0..MaxErr, rerr \in 0..MaxErr :
       xfer = NewTransfer(call, todo, werr, rerr)

NextTransfer ==
  \/ WriterBeginData \/ WriterData \/ ReaderBeginData \/ ReaderData
  \/ \E p \in {"tar", "rclone"} : BeginErr(p) \/ WriteErr(p) \/ Exit(p) \/ read_thread(p)
  \/ MainReadInto \/ MainWrite \/ MainClose \/ MainJoinRclone \/ MainJoinTar \/ MainWait

\* every thread is scheduled, and a subprocess between or in its system
\* calls goes on when the pipe lets it
SpecTransfer ==
  /\ InitTransfer /\ [][NextTransfer]_vars
  /\ WF_vars(WriterBeginData \/ WriterData)
  /\ WF_vars(ReaderBeginData \/ ReaderData)
  /\ \A p \in {"tar", "rclone"} :
       /\ WF_vars(BeginErr(p) \/ WriteErr(p) \/ Exit(p))
       /\ WF_vars(read_thread(p))
  /\ WF_vars(MainReadInto \/ MainWrite \/ MainClose \/ MainJoinRclone \/ MainJoinTar
             \/ MainWait)

\* ------------------------------------------------------------ properties
\* the run completed and counted no error
Clean(r) == ~IsNone(r) /\ r.status = "ok" /\ r.res.error_count = 0

\* no transport call of the run failed
NoFaults(r) == \A i \in 1..Len(r.ops) : r.ops[i].ok

\* the transport calls of a run, by kind
IsPackUpload(o) == o.op = "upload" /\ o.key[2] /= root_name

PackUploads(r) == {i \in 1..Len(r.ops) : IsPackUpload(r.ops[i])}

SkeletonUploads(r) ==
  {i \in 1..Len(r.ops) : r.ops[i].op = "upload" /\ r.ops[i].key[2] = root_name}

Deletes(r) == {i \in 1..Len(r.ops) : r.ops[i].op = "delete"}

\* run is a second run on the tree of prev, given the Document prev built
Rerun ==
  /\ ~IsNone(prev) /\ ~IsNone(run)
  /\ run.prior = prev.doc

SameTree ==
  /\ run.tree = prev.tree
  /\ run.inodes = prev.inodes
  /\ run.unlistable = prev.unlistable

\* a Document up to the order inside maps and inside hard-link groups
RECURSIVE NormNode(_)
NormNode(node) ==
  [files |-> Range(node.files),
   children |-> [k \in DOMAIN node.children |-> NormNode(node.children[k])]]

NormDoc(doc) ==
  [version |-> doc.version, meta |-> NormNode(doc.meta), root_name |-> doc.root_name,
   checksum |-> doc.checksum,
   hard_links |-> {Range(g.group) : g \in doc.hard_links}]

\* every PackEntry of a DirNode tree, with the directory it belongs to
RECURSIVE Packs(_, _)
Packs(node, path) ==
  {[dir |-> path, entry |-> e] : e \in Range(node.files)}
  \cup UNION {Packs(node.children[k], Join(path, decode_child(k))) : k \in DOMAIN node.children}

\* every DirNode of a DirNode tree
RECURSIVE DirNodes(_)
DirNodes(node) ==
  {node} \cup UNION {DirNodes(node.children[k]) : k \in DOMAIN node.children}

\* C1 (as stated): idempotence.  After a first run without errors, a second
\* run on the unchanged tree with the first run's Document ends with
\* real_transfer_files = 0 and builds the same Document, up to the order
\* inside maps and hard-link groups.
C1_Idempotence ==
  (Rerun /\ SameTree /\ Clean(prev) /\ NoFaults(prev) /\ NoFaults(run))
    => /\ run.status = "ok"
       /\ run.res.real_transfer_files = 0
       /\ NormDoc(run.doc) = NormDoc(prev.doc)

\* the files of the run's tree whose mtime differs from the previous run's
Touched ==
  {p \in DOMAIN run.tree :
     /\ run.tree[p].kind = "file"
     /\ run.inodes[run.tree[p].ino].mtime /= prev.inodes[run.tree[p].ino].mtime}

OneLeafTouched(p) ==
  /\ Rerun
  /\ run.tree = prev.tree
  /\ run.unlistable = {} /\ prev.unlistable = {}
  /\ DOMAIN run.inodes = DOMAIN prev.inodes
  /\ Touched = {p}
  /\ \A i \in DOMAIN run.inodes :
       /\ run.inodes[i].size = prev.inodes[i].size
       /\ run.inodes[i].content = prev.inodes[i].content
       /\ i /= run.tree[p].ino => run.inodes[i] = prev.inodes[i]

\* the PackEntry of the previous Document that holds the path p
Holds(pk, p) ==
  /\ IsPrefix(pk.dir, p)
  /\ Len(p) > Len(pk.dir)
  /\ encode_child(p[Len(pk.dir) + 1]) \in Range(pk.entry.list)

Superseded(p) == {pk \in Packs(prev.doc.meta, Root) : Holds(pk, p)}

\* the pack uploads of the run rebuild the pack pk: they are made in its
\* directory, of its members only, and cover its members
Rebuilds(pk) ==
  /\ \A i \in PackUploads(run) :
       /\ run.ops[i].base = pk.dir
       /\ \A n \in Range(run.ops[i].group) : encode_child(n) \in Range(pk.entry.list)
  /\ \A e \in Range(pk.entry.list) :
       \E i \in PackUploads(run) : decode_child(e) \in Range(run.ops[i].group)

\* the only deletion of the run is that of the pack pk
DeletesOnly(pk) ==
  /\ Cardinality(Deletes(run)) = 1
  /\ \A i \in Deletes(run) :
       /\ run.ops[i].key = <<RemotePath(pk.dir), pk.entry.name>>
       /\ ~run.ops[i].is_dir

\* every other PackEntry is carried over under its directory and name
OthersKept(pk) ==
  \A other \in Packs(prev.doc.meta, Root) \ {pk} :
    /\ other \in Packs(run.doc.meta, Root)
    /\ \A i \in PackUploads(run) \cup Deletes(run) :
         run.ops[i].key /= <<RemotePath(other.dir), other.entry.name>>

DownloadOfRun ==
  /\ ~IsNone(dl) /\ ~IsNone(run)
  /\ Clean(run) /\ NoFaults(run)
  /\ tree = run.tree /\ inodes = run.inodes

\* the regular files of the source tree
SourceFiles == {p \in DOMAIN tree : tree[p].kind = "file"}

\* C3 (as stated): hard-link round trip.  After an upload without errors and
\* a download into an empty target that completed without errors, two files
\* share an inode in the restored tree exactly when they did in the source
\* tree, wherever the links are placed and in whatever order the members of
\* a hard_links group are stored.
C3_HardLinkRoundTrip ==
  (DownloadOfRun /\ dl.status = "ok" /\ dl.error_count = 0)
    => \A p \in SourceFiles, q \in SourceFiles :
         /\ p \in DOMAIN dl.fs /\ q \in DOMAIN dl.fs
         /\ dl.fs[p].kind = "file" /\ dl.fs[q].kind = "file"
         /\ (tree[p].ino = tree[q].ino) <=> (dl.fs[p].id = dl.fs[q].id)

\* C4 (as stated): the Document upload builds records use_file_checksum,
\* use_directory_mtime, use_owner and hash_function under `checksum`, and
\* the configuration step of download accepts every such Document.
C4_ChecksumRecorded ==
  /\ (~IsNone(run) /\ run.status = "ok")
       => {"use_file_checksum", "use_directory_mtime", "use_owner", "hash_function"}
            \subseteq DOMAIN run.doc.checksum
  /\ (~IsNone(dl) /\ ~IsNone(run) /\ run.status = "ok" /\ dl.metadata = run.doc)
       => dl.status /= "KeyError"

\* the calls of a run that write the Document to the metadata store
Saves(r) == {i \in 1..Len(r.ops) : r.ops[i].op = "save_metadata"}

\* C5 (as stated): a run whose root walk succeeds persists the new Document
\* exactly once, as its last step, after the walk, the pending deletions and
\* the skeleton upload.
C5_PersistedOnceLast ==
  (~IsNone(run) /\ run.status = "ok")
    => /\ Cardinality(Saves(run)) = 1
       /\ Len(run.ops) \in Saves(run)

\* a DirNode is well formed: names unique, lists pairwise disjoint, no list
\* entry a key of children
WellFormed(node) ==
  /\ \A i, j \in 1..Len(node.files) :
       i /= j => /\ node.files[i].name /= node.files[j].name
                 /\ Range(node.files[i].list) \cap Range(node.files[j].list) = {}
  /\ \A i \in 1..Len(node.files) :
       /\ Range(node.files[i].list) \cap DOMAIN node.children = {}
       /\ \A k, l \in 1..Len(node.files[i].list) :
            k /= l => node.files[i].list[k] /= node.files[i].list[l]

\* C6: in every DirNode of the Document a run builds, PackEntry names are
\* unique, the lists of different PackEntries are disjoint, and no list
\* entry is a key of children, whichever packs are kept, emitted again or
\* fail to upload.
C6_PackInvariant ==
  (~IsNone(run) /\ run.status = "ok")
    => \A node \in DirNodes(run.doc.meta) : WellFormed(node)

\* C6 witness: after a run one of whose uploads failed, the next run built a
\* root DirNode with a pack carried over and a pack it emitted itself.
C6_Witness ==
  /\ Rerun /\ run.status = "ok" /\ prev.status = "ok"
  /\ \E e \in Range(run.doc.meta.files) :
       /\ e \in Range(prev.doc.meta.files)
       /\ \A i \in PackUploads(run) : run.ops[i].key /= <<RemotePath(Root), e.name>>
  /\ \E i \in PackUploads(run) :
       /\ run.ops[i].ok
       /\ run.ops[i].base = Root
       /\ \E e \in Range(run.doc.meta.files) : e.name = run.ops[i].key[2]
  /\ prev.res.error_count > 0

\* the PackEntries a run emitted itself
Emitted(r) ==
  {pk \in Packs(r.doc.meta, Root) :
     \E i \in PackUploads(r) : r.ops[i].key = <<RemotePath(pk.dir), pk.entry.name>>}

\* C7 (amended): the list of every PackEntry a run emits holds the encoded
\* names of the group in ascending order of the raw names: the group is
\* sorted as bytes and then encoded, and base32 does not keep that order.
C7_ListOrder ==
  (~IsNone(run) /\ run.status = "ok")
    => \A pk \in Emitted(run) :
         \A i, j \in 1..Len(pk.entry.list) :
           i < j => BytesLess(decode_child(pk.entry.list[i]), decode_child(pk.entry.list[j]))

\* C7 (as stated): the list is in ascending order of the encoded strings.
C7_SortedEncoded ==
  (~IsNone(run) /\ run.status = "ok")
    => \A pk \in Emitted(run) :
         \A i, j \in 1..Len(pk.entry.list) :
           i < j => BytesLess(pk.entry.list[i], pk.entry.list[j])

\* C7 witness: an emitted list of two names whose raw order and encoded
\* order differ.
C7_Witness ==
  /\ ~IsNone(run) /\ run.status = "ok"
  /\ \E pk \in Emitted(run) :
       /\ Len(pk.entry.list) >= 2
       /\ BytesLess(pk.entry.list[2], pk.entry.list[1])

\* C8 (as stated): a run exits with 0 when error_count is 0, with 1 when
\* error_count > 0 and --ignore-errors was not given, and with 0 when
\* error_count > 0 and --ignore-errors was given.
C8_ExitStatus ==
  /\ (~IsNone(run) /\ run.status = "ok")
       => run.exit_status = IF run.res.error_count > 0 /\ ~conf.ignore_errors THEN 1 ELSE 0
  /\ (~IsNone(dl) /\ dl.status = "ok")
       => dl.exit_status = IF dl.error_count > 0 /\ ~conf.ignore_errors THEN 1 ELSE 0

FailedPackUploads(r) == {i \in PackUploads(r) : ~r.ops[i].ok}

\* the transport calls of a run without their outcomes
Calls(ops) ==
  [i \in 1..Len(ops) |-> [op |-> ops[i].op, key |-> ops[i].key, group |-> ops[i].group]]

\* C9: when the upload of a pack group fails, the group's PackEntry is
\* absent from the new metadata, error_count grows by exactly one, the
\* real-transfer counters do not move, the walk goes on with the remaining
\* groups and directories as it would have without the failure, and a later
\* run given the resulting metadata uploads the members of the group again.
C9_UploadFailure ==
  /\ (~IsNone(run) /\ run.status = "ok")
       => /\ \A i \in FailedPackUploads(run) :
               \A pk \in Packs(run.doc.meta, Root) :
                 pk.dir = run.ops[i].base
                   => /\ pk.entry.name /= run.ops[i].key[2]
                      /\ \A n \in Range(run.ops[i].group) :
                           encode_child(n) \notin Range(pk.entry.list)
          /\ run.res.error_count
               = Cardinality({i \in 1..Len(run.ops) :
                                ~run.ops[i].ok /\ run.ops[i].key[2] /= root_name})
          /\ run.res.real_transfer_files
               = Cardinality({i \in 1..Len(run.ops) :
                                run.ops[i].ok /\ run.ops[i].op = "upload"})
          /\ (/\ FailedPackUploads(run) /= {}
              /\ tree = run.tree /\ inodes = run.inodes /\ unlistable = run.unlistable)
               => \E iter \in IterOrders :
                    Calls(upload(run.prior, NoFault, iter).G.ops) = Calls(run.ops)
  /\ (Rerun /\ SameTree /\ prev.status = "ok")
       => /\ run.status = "ok"
          /\ \A i \in FailedPackUploads(prev) :
               \A n \in Range(prev.ops[i].group) :
                 \E j \in PackUploads(run) :
                   /\ run.ops[j].base = prev.ops[i].base
                   /\ n \in Range(run.ops[j].group)

\* C9 witness: the first of two pack uploads of a run failed, the second was
\* made, and the next run on the same tree uploaded the failed group.
C9_Witness ==
  /\ Rerun /\ SameTree /\ prev.status = "ok" /\ run.status = "ok"
  /\ prev.res.error_count = 1
  /\ \E i \in FailedPackUploads(prev) :
       /\ \E j \in PackUploads(prev) : j > i /\ prev.ops[j].ok
       /\ \E j \in PackUploads(run) :
            /\ run.ops[j].ok
            /\ run.ops[j].base = prev.ops[i].base
            /\ run.ops[j].group = prev.ops[i].group

\* the size a path contributes to its parent's size_map in a tree snapshot
RECURSIVE Weight(_, _)
Weight(r, p) ==
  IF r.tree[p].kind = "file" THEN r.inodes[r.tree[p].ino].size + conf.file_base_bytes
  ELSE LET kids == {q \in DOMAIN r.tree : Len(q) = Len(p) + 1 /\ IsPrefix(p, q)}
           f[S \in SUBSET kids] ==
             IF S = {} THEN 0
             ELSE LET q == CHOOSE x \in S : TRUE IN Weight(r, q) + f[S \ {q}]
       IN conf.file_base_bytes + f[kids]

\* the key grouping_order selects for a child of a directory
OrderKey(r, p) ==
  IF conf.grouping_order = "size" THEN Weight(r, p)
  ELSE IF r.tree[p].kind = "dir" THEN 0
  ELSE IF conf.grouping_order = "mtime" THEN r.inodes[r.tree[p].ino].mtime
  ELSE IF conf.grouping_order = "ctime" THEN r.inodes[r.tree[p].ino].ctime
  ELSE 0

Before(r, base, x, y) ==
  \/ OrderKey(r, Join(base, x)) < OrderKey(r, Join(base, y))
  \/ OrderKey(r, Join(base, x)) = OrderKey(r, Join(base, y)) /\ BytesLess(x, y)

\* the groups a run uploads in one directory come in ascending order of the
\* key, ties broken by raw name
GroupsInOrder(r) ==
  \A i, j \in PackUploads(r) :
    (i < j /\ r.ops[i].base = r.ops[j].base)
      => \A x \in Range(r.ops[i].group), y \in Range(r.ops[j].group) :
           Before(r, r.ops[i].base, x, y)

\* C10 (as stated): for each grouping_order the configuration accepts (size,
\* name, mtime, ctime), the walk takes the pending children of a retained
\* directory in ascending order of that key, ties broken by raw name, and
\* emits the pack groups in that order.
C10_GroupingOrder ==
  (~IsNone(run) /\ conf.grouping_order \in GroupingOrders /\ Root \notin run.unlistable)
    => /\ run.status \notin {"NotImplementedError"}
       /\ run.status = "ok" => GroupsInOrder(run)

\* the part of C10 that holds: under size, mtime and ctime the groups are
\* emitted in ascending order of the key
GroupingOrderImplemented ==
  (~IsNone(run) /\ run.status = "ok") => GroupsInOrder(run)

\* the accumulated size of a pack of the Document a run built: the size_map
\* values of its members
RECURSIVE ListWeight(_, _, _)
ListWeight(r, dir, list) ==
  IF list = <<>> THEN 0
  ELSE Weight(r, Join(dir, decode_child(Head(list)))) + ListWeight(r, dir, Tail(list))

SmallPacks(r, dir) ==
  {pk \in Packs(r.doc.meta, Root) :
     /\ pk.dir = dir
     /\ ListWeight(r, dir, pk.entry.list) < conf.merge_threshold}

\* C11 (as stated): after any sequence of upload runs, each given the
\* Document of the run before, the tree possibly changing in between, every
\* DirNode holds at most one pack whose accumulated size is smaller than
\* merge_threshold.
C11_OneSmallPack ==
  (~IsNone(run) /\ run.status = "ok")
    => \A dir \in {Root} \cup DOMAIN run.tree : Cardinality(SmallPacks(run, dir)) <= 1

\* the part of C11 that holds: a run given no previous Document leaves at
\* most one pack per directory that does not exceed merge_threshold
FirstRunOneSmallPack ==
  (~IsNone(run) /\ run.status = "ok" /\ IsNone(run.prior))
    => \A dir \in {Root} \cup DOMAIN run.tree :
         Cardinality({pk \in Packs(run.doc.meta, Root) :
                        /\ pk.dir = dir
                        /\ ListWeight(run, dir, pk.entry.list) <= conf.merge_threshold}) <= 1

\* C12 (as stated): the remote deletions of a run form one phase: with
\* delete_after_upload no delete is issued until every pack upload of the
\* walk has been attempted; without it every delete is issued before the
\* first pack upload of the walk.
C12_SinglePhase ==
  ~IsNone(run)
    => \A i \in Deletes(run), j \in PackUploads(run) :
         IF conf.delete_after_upload THEN j < i ELSE i < j

\* C12 (amended): with delete_after_upload the deletions are queued and
\* issued after every pack upload of the walk and before the skeleton
\* upload; without it each deletion is issued at once, before the walks of
\* the subdirectories and the pack uploads of the directory it is made in,
\* and possibly after the pack uploads of directories walked earlier.
C12_DeletePhases ==
  ~IsNone(run)
    => /\ \A i \in Deletes(run), j \in PackUploads(run) :
            IF conf.delete_after_upload THEN j < i
            ELSE IsPrefix(run.ops[i].key[1], run.ops[j].key[1]) => i < j
       /\ \A i \in Deletes(run), k \in SkeletonUploads(run) : i < k

\* C12 witness: a run that deletes at once issued a deletion in one
\* directory after the pack upload of another, and a deletion before the
\* pack upload of its own directory.
C12_Witness ==
  /\ ~IsNone(run) /\ run.status = "ok" /\ ~conf.delete_after_upload
  /\ \E i \in Deletes(run), j \in PackUploads(run) : j < i
  /\ \E i \in Deletes(run), j \in PackUploads(run) :
       i < j /\ run.ops[i].key[1] = run.ops[j].key[1]

\* C13 (as stated): load_metadata returns None instead of raising whenever
\* the metadata object does not exist or its text fails to decode as JSON,
\* at a remote location and at a local path alike.
C13_LoadAbsent ==
  (/\ ~IsNone(ld)
   /\ \/ ld.obj.kind = "absent"
      \/ ld.obj.kind = "gzip" /\ ld.obj.text.kind /= "json")
    => ld.result = Returned(None)

\* the part of C13 that holds: at a remote location a missing object and a
\* text that is not JSON both give None, and so does a missing local file
LoadAbsentRemote ==
  (/\ ~IsNone(ld)
   /\ \/ ld.obj.kind = "absent"
      \/ ld.is_remote /\ ld.obj.kind = "gzip" /\ ld.obj.text.kind /= "json")
    => ld.result = Returned(None)

\* the hard_links groups of a run's Document are well formed: every path is
\* a regular file of the tree held by a pack of the Document, a group has
\* at least two distinct members, and the groups are disjoint
GroupsRecorded(r) ==
  /\ \A g \in r.doc.hard_links :
       /\ Len(g.group) >= 2
       /\ \A i, j \in 1..Len(g.group) : g.group[i] = g.group[j] => i = j
       /\ \A i \in 1..Len(g.group) :
            /\ GroupPath(g.group[i]) \in DOMAIN r.tree
            /\ r.tree[GroupPath(g.group[i])].kind = "file"
            /\ \E pk \in Packs(r.doc.meta, Root) : Holds(pk, GroupPath(g.group[i]))
  /\ \A g, h \in r.doc.hard_links :
       g /= h => Range(g.group) \cap Range(h.group) = {}

\* C14 (as stated): every path of every hard_links group of the Document is
\* a regular file that is a member of a pack the Document records, each
\* group has at least two distinct members and the groups are disjoint,
\* also in runs some of whose pack uploads failed.
C14_HardLinkGroups ==
  (~IsNone(run) /\ run.status = "ok") => GroupsRecorded(run)

\* the part of C14 that holds: the groups of a run none of whose pack
\* uploads failed
GroupsRecordedNoFailure ==
  (~IsNone(run) /\ run.status = "ok" /\ FailedPackUploads(run) = {}) => GroupsRecorded(run)

\* the DirNodes below the root that hold no PackEntry and no child DirNode
EmptyDirNodes(r) ==
  {node \in UNION {DirNodes(r.doc.meta.children[k]) : k \in DOMAIN r.doc.meta.children} :
     node.files = <<>> /\ DOMAIN node.children = {}}

\* C15 (as stated): a directory below the root has a DirNode only if it
\* holds a PackEntry or a descendant DirNode does: no DirNode other than the
\* root has both files and children empty, whatever uploads fail.
C15_NoEmptyDirNode ==
  (~IsNone(run) /\ run.status = "ok") => EmptyDirNodes(run) = {}

\* the part of C15 that holds: the runs none of whose pack uploads failed
NoEmptyDirNodeNoFailure ==
  (~IsNone(run) /\ run.status = "ok" /\ FailedPackUploads(run) = {})
    => EmptyDirNodes(run) = {}

\* --------------------------------------------------------- S3 chunk size
CeilDiv(a, b) == (a + b - 1) \div b

\* the expected size of a pack: the st_size of its regular files
RECURSIVE ExpectedSize(_, _, _)
ExpectedSize(r, base, files) ==
  IF files = <<>> THEN 0
  ELSE (IF (base \o Head(files)) \in DOMAIN r.tree /\ r.tree[base \o Head(files)].kind = "file"
        THEN r.inodes[r.tree[base \o Head(files)].ino].size ELSE 0)
       + ExpectedSize(r, base, Tail(files))

\* the packs of a run whose expected size passes 6000 chunks of the floor
LargePacks(r) ==
  {i \in PackUploads(r) :
     ExpectedSize(r, r.ops[i].base, r.ops[i].files) > 6000 * conf.s3_min_chunk_size_kib * 1024}

\* C16: every pack the planner uploads whose expected size is above
\* 6000 * s3_min_chunk_size_kib * 1024 bytes is given to the transport with a
\* chunk size of max(s3_min_chunk_size_kib, ceil(expected / (6000 * 1024))) KiB.
C16_ChunkEscalation ==
  ~IsNone(run) =>
    \A i \in LargePacks(run) :
      run.ops[i].chunk = <<Max(conf.s3_min_chunk_size_kib,
                               CeilDiv(ExpectedSize(run, run.ops[i].base, run.ops[i].files),
                                       6000 * 1024))>>

\* what the planner does: no pack is given a chunk size unless the floor
\* itself is above 5 MiB
NoChunkOption ==
  ~IsNone(run) =>
    \A i \in PackUploads(run) :
      run.ops[i].chunk = IF conf.s3_min_chunk_size_kib > 5 * 1024
                         THEN <<conf.s3_min_chunk_size_kib>> ELSE <<>>

\* rclone_upload called with a hint: the chunk size is the ceiling except at
\* the exact multiples of 6000 * 1024, where it is one more
HintSizes == {6000 * 1024 + 1, 2 * 6000 * 1024 - 1, 2 * 6000 * 1024, 2 * 6000 * 1024 + 1}

EscalationIsCeiling ==
  \A n \in HintSizes :
    n > 6000 * conf.s3_min_chunk_size_kib * 1024
      => s3_chunk_size(n) = <<Max(conf.s3_min_chunk_size_kib, CeilDiv(n, 6000 * 1024))>>

EscalationOffMultiples ==
  \A n \in HintSizes :
    (n > 6000 * conf.s3_min_chunk_size_kib * 1024 /\ n % (6000 * 1024) /= 0)
      => s3_chunk_size(n) = <<Max(conf.s3_min_chunk_size_kib, CeilDiv(n, 6000 * 1024))>>


\* --------------------------------------------------------- fold decision
\* the returns of upload_walk that carry a result
WalkReturns(r) == {i \in 1..Len(r.walks) : ~r.walks[i].absent}

\* a directory and every path below it
Subtree(r, path) == {path} \cup {p \in DOMAIN r.tree : IsPrefix(path, p)}

PacksAt(r, path) == {i \in PackUploads(r) : r.ops[i].base = path}

\* returned as folded: not force-retained, no metadata node, no pack at this
\* level, and the whole subtree handed up in files_to_tar
Folded(r, w) ==
  /\ ~w.res.force_retain
  /\ IsNone(w.res.metadata)
  /\ PacksAt(r, w.path) = {}
  /\ w.res.files_to_tar = Subtree(r, w.path)

\* light enough to fold: no previous pack kept, no child directory
\* force-retained, and the weight within the threshold
Foldable(w) ==
  /\ w.kept = <<>>
  /\ \A c \in DOMAIN w.children : ~w.children[c]
  /\ w.res.total_size + w.res.total_files * conf.file_base_bytes <= conf.merge_threshold

\* C17: upload_walk returns a directory as folded exactly when it is not the
\* root, kept none of its previous packs, has no force-retained descendant,
\* and weighs no more than merge_threshold; in every other case it returns it
\* force-retained with a metadata node, so the root is never folded.
C17_FoldDecision ==
  ~IsNone(run) =>
    \A i \in WalkReturns(run) :
      /\ Folded(run, run.walks[i]) <=> (~run.walks[i].is_root /\ Foldable(run.walks[i]))
      /\ ~Folded(run, run.walks[i])
           => (run.walks[i].res.force_retain /\ ~IsNone(run.walks[i].res.metadata))

\* a run that folded a directory below a root that was itself light enough
\* to fold and was force-retained
C17_Witness ==
  /\ ~IsNone(run) /\ run.status = "ok"
  /\ \E i \in WalkReturns(run) : ~run.walks[i].is_root /\ Folded(run, run.walks[i])
  /\ \E i \in WalkReturns(run) :
       /\ run.walks[i].is_root /\ Foldable(run.walks[i])
       /\ run.walks[i].res.force_retain


\* a directory below the root that kept a previous pack
KeptBelowRoot ==
  /\ ~IsNone(run) /\ run.status = "ok"
  /\ \E i \in WalkReturns(run) : ~run.walks[i].is_root /\ run.walks[i].kept /= <<>>

\* a directory below the root that kept a previous pack and weighs no more
\* than merge_threshold
KeptLightBelowRoot ==
  /\ ~IsNone(run) /\ run.status = "ok"
  /\ \E i \in WalkReturns(run) :
       /\ ~run.walks[i].is_root /\ run.walks[i].kept /= <<>>
       /\ run.walks[i].res.total_size + run.walks[i].res.total_files * conf.file_base_bytes
            <= conf.merge_threshold


\* --------------------------------------------------------- group closing
\* the accumulated size of a set of children of a directory
RECURSIVE SetWeight(_, _, _)
SetWeight(r, dir, S) ==
  IF S = {} THEN 0
  ELSE LET x == CHOOSE y \in S : TRUE
       IN Weight(r, Join(dir, x)) + SetWeight(r, dir, S \ {x})

\* the member of a group that comes last in the grouping order
LastMember(r, dir, S) == CHOOSE x \in S : \A y \in S \ {x} : Before(r, dir, y, x)

\* the pack uploads of one emission pass split the pending children
Partitioned(r, w) ==
  /\ UNION {Range(r.ops[i].group) : i \in PacksAt(r, w.path)} = DOMAIN w.size_map
  /\ \A i \in PacksAt(r, w.path) :
       /\ r.ops[i].group /= <<>>
       /\ Cardinality(Range(r.ops[i].group)) = Len(r.ops[i].group)
  /\ \A i, j \in PacksAt(r, w.path) :
       i /= j => Range(r.ops[i].group) \cap Range(r.ops[j].group) = {}

\* every group but the last passed the threshold with its last member
ClosedOnThreshold(r, w) ==
  \A i, j \in PacksAt(r, w.path) :
    i < j =>
      /\ SetWeight(r, w.path, Range(r.ops[i].group)) > conf.merge_threshold
      /\ SetWeight(r, w.path, Range(r.ops[i].group)
                              \ {LastMember(r, w.path, Range(r.ops[i].group))})
           <= conf.merge_threshold

\* C18: the pack uploads of one emission pass over a directory partition its
\* pending children into non-empty groups that are consecutive in the
\* grouping order; every group but the last weighs more than merge_threshold
\* and, without its last member, no more than merge_threshold.
C18_GroupClosing ==
  ~IsNone(run) =>
    /\ GroupsInOrder(run)
    /\ \A k \in WalkReturns(run) :
         run.walks[k].res.force_retain
           => /\ Partitioned(run, run.walks[k])
              /\ ClosedOnThreshold(run, run.walks[k])
              /\ \A x \in DOMAIN run.walks[k].size_map :
                   run.walks[k].size_map[x] = Weight(run, Join(run.walks[k].path, x))

\* an emission pass that closed a group of two members on the threshold and
\* went on to a further group
C18_Witness ==
  /\ ~IsNone(run) /\ run.status = "ok"
  /\ \E i, j \in PackUploads(run) :
       /\ i < j /\ run.ops[i].base = run.ops[j].base
       /\ Len(run.ops[i].group) >= 2


\* --------------------------------------------------------- pack naming
\* the names of the packs the reuse pass of a directory kept
KeptNames(w) == {w.kept[k].name : k \in 1..Len(w.kept)}

\* the deletions a run queued, in the order queued
Scheduled(r) == {r.res.files_to_delete[k] : k \in 1..Len(r.res.files_to_delete)}

\* a deletion that removes the object a pack upload wrote
Removes(d, u) ==
  \/ d.key = u.key
  \/ d.is_dir /\ IsPrefix(Append(d.key[1], d.key[2]), u.key[1])

\* C19: in one directory every newly emitted pack has a name different from
\* every kept pack and from every other newly emitted pack; with
\* delete_after_upload it is also different from every name queued for
\* deletion in that directory, and no deletion issued after the upload
\* removes the pack.
C19_SafeNaming ==
  ~IsNone(run) =>
    /\ \A i, j \in PackUploads(run) : i /= j => run.ops[i].key /= run.ops[j].key
    /\ \A k \in WalkReturns(run) :
         \A i \in PacksAt(run, run.walks[k].path) :
           run.ops[i].key[2] \notin KeptNames(run.walks[k])
    /\ conf.delete_after_upload =>
         /\ \A i \in PackUploads(run), d \in Scheduled(run) : d.path /= run.ops[i].key
         /\ \A i \in PackUploads(run), j \in Deletes(run) :
              i < j => ~Removes(run.ops[j], run.ops[i])

\* a run that kept one pack of a directory, queued the deletion of another,
\* uploaded a new pack there and deleted after the upload
C19_Witness ==
  /\ ~IsNone(run) /\ run.status = "ok" /\ conf.delete_after_upload
  /\ \E k \in WalkReturns(run), i \in PackUploads(run), j \in Deletes(run) :
       /\ i \in PacksAt(run, run.walks[k].path)
       /\ KeptNames(run.walks[k]) /= {}
       /\ i < j /\ run.ops[j].ok /\ run.ops[i].ok
       /\ run.ops[j].key[1] = run.ops[i].key[1]
       /\ ~run.ops[j].is_dir


\* --------------------------------------------------------- unlistable child
\* the walks of a run that returned None for a directory below the root
AbsentWalks(r) == {k \in 1..Len(r.walks) : r.walks[k].absent /\ ~r.walks[k].is_root}

\* the directories above a path, the root included
Ancestors(d) == {SubSeq(d, 1, n) : n \in 1..(Len(d) - 1)}

\* the walk of a directory returned a result
Completed(r, a) == \E k \in WalkReturns(r) : r.walks[k].path = a

\* a directory is in no files_to_tar, no member list and no group of a run
NoContribution(r, d) ==
  /\ \A k \in WalkReturns(r) : d \notin r.walks[k].res.files_to_tar
  /\ \A i \in PackUploads(r) :
       /\ \A m \in Range(r.ops[i].files) : ~IsPrefix(d, r.ops[i].base \o m)
       /\ r.ops[i].base = SubSeq(d, 1, Len(d) - 1) => d[Len(d)] \notin Range(r.ops[i].group)
  /\ r.status = "ok" => d \notin Range(r.res.retained_directories)

\* C20: when the listing of a child directory fails, its walk returns absent
\* and the walk of every ancestor completes normally, whether the parent
\* folds or emits packs; the child is in no files_to_tar and no pack.
\* (Grouping order name, under which no emission pass completes, is left out.)
C20_AbsentChild ==
  (~IsNone(run) /\ conf.grouping_order /= "name") =>
    \A k \in AbsentWalks(run) :
      /\ run.status = "ok"
      /\ \A a \in Ancestors(run.walks[k].path) : Completed(run, a)
      /\ NoContribution(run, run.walks[k].path)

\* the part that holds: an unlistable child is in no files_to_tar and no
\* pack, and under a parent that emits packs (the root, here) every walk
\* completes
AbsentChildOfRoot ==
  ~IsNone(run) =>
    \A k \in AbsentWalks(run) :
      /\ NoContribution(run, run.walks[k].path)
      /\ (Len(run.walks[k].path) = 2 /\ conf.grouping_order /= "name")
           => (run.status = "ok" /\ Completed(run, Root))

\* the walk of a parent that does not return raised KeyError
AbsentChildOutcome ==
  (~IsNone(run) /\ conf.grouping_order /= "name") =>
    \A k \in AbsentWalks(run) :
      /\ run.status \in {"ok", "KeyError"}
      /\ run.status = "ok" <=> \A a \in Ancestors(run.walks[k].path) : Completed(run, a)


\* --------------------------------------------------------- filesystem errors
\* C21: a directory of the walk that cannot be listed is left out of the run
\* and raises the error_count reported at the root, so the run ends with
\* error_count > 0.
C21_ListingErrorCounted ==
  (~IsNone(run) /\ run.status = "ok") =>
    \A k \in AbsentWalks(run) :
      /\ NoContribution(run, run.walks[k].path)
      /\ run.res.error_count > 0

\* what the planner counts: the pack uploads and the deletions that failed,
\* and nothing else
TransportErrorsCounted ==
  (~IsNone(run) /\ run.status = "ok") =>
    run.res.error_count =
      Cardinality({i \in 1..Len(run.ops) :
                     ~run.ops[i].ok /\ i \notin SkeletonUploads(run)})


\* --------------------------------------------------------- path lists
\* a path list in ascending order
SortedList(files) ==
  \A a, b \in 1..Len(files) : a < b => PathLess(files[a], files[b])

\* a path relative to base that names base or something below it: it does
\* not start at the root of the source
RelativeTo(r, base, m) ==
  /\ ~IsPrefix(Root, m)
  /\ (base \o m) \in Subtree(r, base)

\* C22: every path list handed to rclone_upload in a run, for a pack group
\* or for the skeleton pack, is sorted and holds only paths relative to the
\* base directory of the same call.
C22_SortedRelativeLists ==
  ~IsNone(run) =>
    \A i \in 1..Len(run.ops) :
      run.ops[i].op = "upload"
        => /\ SortedList(run.ops[i].files)
           /\ \A m \in Range(run.ops[i].files) : RelativeTo(run, run.ops[i].base, m)

\* the part that holds: the lists of the pack groups are sorted and
\* relative, the list of the skeleton pack is sorted
PackListsSortedRelative ==
  ~IsNone(run) =>
    /\ \A i \in PackUploads(run) :
         /\ SortedList(run.ops[i].files)
         /\ \A m \in Range(run.ops[i].files) : RelativeTo(run, run.ops[i].base, m)
    /\ \A i \in SkeletonUploads(run) : SortedList(run.ops[i].files)

\* the list of the skeleton pack holds the retained directories as the walk
\* joined them: the paths from the source root on
SkeletonListAbsolute ==
  ~IsNone(run) =>
    \A i \in SkeletonUploads(run) :
      /\ run.ops[i].files /= <<>>
      /\ \A m \in Range(run.ops[i].files) : IsPrefix(Root, m)


\* --------------------------------------------------------- download order
\* the steps of a download, by kind
PackSteps(d) ==
  {i \in 1..Len(d.steps) : d.steps[i].op = "download" /\ d.steps[i].key[2] /= d.metadata.root_name}

SkeletonSteps(d) ==
  {i \in 1..Len(d.steps) : d.steps[i].op = "download" /\ d.steps[i].key[2] = d.metadata.root_name}

LinkSteps(d) == {i \in 1..Len(d.steps) : d.steps[i].op = "link"}

\* the PackEntries of a DirNode and of the DirNodes below it
RECURSIVE CountPacks(_)
CountPacks(node) ==
  LET f[S \in SUBSET DOMAIN node.children] ==
        IF S = {} THEN 0
        ELSE LET c == CHOOSE x \in S : TRUE IN CountPacks(node.children[c]) + f[S \ {c}]
  IN Len(node.files) + f[DOMAIN node.children]

RECURSIVE CountLinks(_)
CountLinks(hard_links) ==
  IF hard_links = {} THEN 0
  ELSE LET item == CHOOSE x \in hard_links : TRUE
       IN (Len(item.group) - 1) + CountLinks(hard_links \ {item})

\* the packs of a directory come before the packs of the directories below
PacksBeforeChildren(d) ==
  \A i, j \in PackSteps(d) :
    (Len(d.steps[i].dest) < Len(d.steps[j].dest) /\ IsPrefix(d.steps[i].dest, d.steps[j].dest))
      => i < j

\* the skeleton pack comes after every pack of the walk
SkeletonAfterWalk(d) == \A i \in PackSteps(d), j \in SkeletonSteps(d) : i < j

\* every step is taken whatever failed before it, and each failure is counted
NoStepSkipped(d) ==
  /\ Cardinality(PackSteps(d)) = CountPacks(d.metadata.meta)
  /\ Cardinality(SkeletonSteps(d)) = 1
  /\ Cardinality(LinkSteps(d)) = CountLinks(d.metadata.hard_links)
  /\ d.error_count = Cardinality({i \in 1..Len(d.steps) : ~d.steps[i].ok})

\* C23 (as stated): in a download the packs of a directory are downloaded
\* before the walk descends, the skeleton pack is downloaded after the whole
\* walk, and the hard links are restored after the skeleton pack; a failed
\* step is counted and stops nothing.
C23_DownloadOrder ==
  (~IsNone(dl) /\ dl.status = "ok") =>
    /\ PacksBeforeChildren(dl)
    /\ SkeletonAfterWalk(dl)
    /\ \A l \in LinkSteps(dl), k \in SkeletonSteps(dl) : k < l
    /\ NoStepSkipped(dl)

\* C23 (amended): the hard links are restored after the whole walk and
\* before the skeleton pack, which is the last step of a download.
C23_SkeletonLast ==
  (~IsNone(dl) /\ dl.status = "ok") =>
    /\ PacksBeforeChildren(dl)
    /\ SkeletonAfterWalk(dl)
    /\ \A l \in LinkSteps(dl) :
         /\ \A i \in PackSteps(dl) : i < l
         /\ \A k \in SkeletonSteps(dl) : l < k
    /\ NoStepSkipped(dl)

\* a download of packs at two levels with a hard link to restore
C23_Witness ==
  /\ ~IsNone(dl) /\ dl.status = "ok"
  /\ LinkSteps(dl) /= {}
  /\ SkeletonSteps(dl) /= {}
  /\ \E i, j \in PackSteps(dl) : Len(dl.steps[i].dest) < Len(dl.steps[j].dest)

\* a download in which a pack download failed and a later step was taken
DownloadFailureCounted ==
  /\ ~IsNone(dl) /\ dl.status = "ok"
  /\ \E i \in PackSteps(dl), j \in 1..Len(dl.steps) : ~dl.steps[i].ok /\ i < j /\ dl.steps[j].ok

\* ---- C24
CallReturned == ~IsNone(xfer) /\ xfer.pc = "done"

\* the exit statuses are read at "wait", after both joins
JoinedBeforeStatus ==
  (~IsNone(xfer) /\ xfer.pc \in {"wait", "done"}) =>
    (xfer.thr["rclone"] = "done" /\ xfer.thr["tar"] = "done")

FailureOnNonZero ==
  CallReturned =>
    (xfer.result = -1 <=> (xfer.proc["tar"].status /= 0 \/ xfer.proc["rclone"].status /= 0))

\* C24: a call of rclone_upload or rclone_download always returns, whatever
\* the two subprocesses write to their pipes and whenever they exit; both
\* stderr drainer threads are joined before an exit status is read; and a
\* non-zero status of either subprocess makes the call return the failure
\* result -1.
C24_TransferReturns ==
  /\ []JoinedBeforeStatus
  /\ []FailureOnNonZero
  /\ <>CallReturned

\* the reader exited leaving a full data pipe behind, the writer was ended
\* by the closed pipe, and the call returned the failure result
C24_Witness ==
  /\ CallReturned
  /\ xfer.data_out = PipeCap
  /\ xfer.proc[xfer.reader].status = 0 /\ xfer.proc[xfer.writer].status = 1
  /\ xfer.todo > 0
  /\ xfer.result = -1

\* a subprocess blocked on a full stderr pipe while the main thread is
\* blocked on the data pipe: the drainer is what lets the call go on
BlockedOnStderr ==
  /\ ~IsNone(xfer) /\ xfer.pc = "write" /\ xfer.data_out = PipeCap
  /\ xfer.proc[xfer.reader].st = "write_err" /\ xfer.stderr[xfer.reader] = PipeCap

\* ---- C25
\* the state is the one the last run walked
AtRun ==
  /\ ~IsNone(run)
  /\ tree = run.tree /\ inodes = run.inodes /\ unlistable = run.unlistable

\* the checksums the reuse pass computes for a PackEntry are the stored ones
Recomputed(pk) ==
  KeepPack(pk.dir, pk.entry, FileList(pk.entry), ListDir(pk.dir))

\* C25: on an unchanged tree, in time mode and in content mode, the reuse
\* pass recomputes for every pack of the first run's Document the checksums
\* stored at emission, so the second run keeps every pack, uploads nothing
\* but the skeleton and issues no delete.
C25_ReuseKeepsAll ==
  (Rerun /\ SameTree /\ Clean(prev) /\ NoFaults(prev)) =>
    /\ AtRun => \A pk \in Packs(prev.doc.meta, Root) : Recomputed(pk)
    /\ run.status = "ok"
    /\ PackUploads(run) = {}
    /\ Deletes(run) = {}
    /\ Packs(run.doc.meta, Root) = Packs(prev.doc.meta, Root)

\* content mode, a second run on the unchanged tree, and a kept pack that
\* holds a folded directory with a file in it
C25_Witness ==
  /\ Rerun /\ SameTree /\ Clean(prev) /\ NoFaults(prev) /\ AtRun
  /\ conf.use_file_checksum
  /\ \E pk \in Packs(run.doc.meta, Root) :
       /\ pk \in Packs(prev.doc.meta, Root)
       /\ \E f \in FileList(pk.entry) :
            /\ Stat(Join(pk.dir, f)).isdir
            /\ \E g \in ListDir(Join(pk.dir, f)) : ~Stat(Join(Join(pk.dir, f), g)).isdir

\* the same in time mode, with a pack below the root
TimeModeKept ==
  /\ Rerun /\ SameTree /\ Clean(prev) /\ NoFaults(prev) /\ AtRun
  /\ ~conf.use_file_checksum
  /\ \E pk \in Packs(run.doc.meta, Root) : pk \in Packs(prev.doc.meta, Root) /\ pk.dir /= Root

\* ---- C26
\* the run was given a previous Document and completed
GivenPrior(r) == ~IsNone(r) /\ r.status = "ok" /\ ~IsNone(r.prior)

\* a remote delete of the run removes the pack pk: the delete of the pack
\* itself or the purge of a directory prefix that encloses it
DeleteIssued(r, pk) ==
  \E i \in Deletes(r) :
    Removes(r.ops[i], [key |-> <<RemotePath(pk.dir), pk.entry.name>>])

Orphans(r) ==
  {pk \in Packs(r.prior.meta, Root) :
     pk \notin Packs(r.doc.meta, Root) /\ ~DeleteIssued(r, pk)}

\* C26: no orphaned packs.  After an upload run given a previous Document,
\* every PackEntry of that Document is carried into the new Document under
\* the same directory and name, or a remote delete has been issued for the
\* pack or for a directory prefix enclosing it; also when a directory that
\* was retained can no longer be listed.
C26_NoOrphans == GivenPrior(run) => Orphans(run) = {}

\* the same for the runs in which every directory can be listed
NoOrphansListable ==
  (GivenPrior(run) /\ run.unlistable = {}) => Orphans(run) = {}

====
